---- MODULE Spec2Model ----
(***************************************************************************)
(* Model of the ETL orchestration core of advanced-etl-pipeline and of its *)
(* transform functions:                                                    *)
(*   src/src/utils/monitoring.py   PipelineMonitor                         *)
(*   src/src/pipeline.py           ETLPipeline                             *)
(*   src/src/transformers/data_transformer.py  DataTransformer             *)
(*   src/transform/clean.py        standardize_column_names,               *)
(*                                 fill_missing_values, convert_dtypes     *)
(*   src/transform/join.py         aggregate_data, calculate_percentages,  *)
(*                                 rank_data                               *)
(*   src/extract/api.py            extract_from_api, extract_paginated_api *)
(*                                                                         *)
(* Spec           the orchestrator: builder calls, then run() executed one *)
(*                adapter call / chain step at a time.                     *)
(* SpecMonitor    a client calling the operations of one PipelineMonitor   *)
(*                in any order.                                            *)
(* SpecData       the Datasets of one run() as objects: which frame each   *)
(*                name refers to and which frames a step changes.          *)
(* SpecNames      standardize_column_names applied to a frame, and to its  *)
(*                own result.                                              *)
(* SpecAggregate  aggregate_data and DataTransformer.aggregate applied to  *)
(*                a Dataset, a grouping key and an aggregations dict.      *)
(* SpecPercent    calculate_percentages applied to a Dataset.              *)
(* SpecFill       fill_missing_values applied to a Dataset.                *)
(* SpecRank       rank_data applied to a Dataset.                          *)
(* SpecConvert    convert_dtypes and DataTransformer.convert_types applied *)
(*                to a Dataset and a mapping of columns to types.          *)
(* SpecApi        one call of extract_from_api or extract_paginated_api,   *)
(*                one request at a time; SpecApiFair adds weak fairness.   *)
(***************************************************************************)
EXTENDS Integers, Sequences, FiniteSets, TLC

\* ------------------------------------------------------------------ bounds
MaxSources == 2      \* add_extractor calls on one orchestrator
MaxSinks == 2        \* add_loader calls on one orchestrator
MaxChain == 1        \* steps of the chain given to set_transformer
MaxRuns == 2         \* run() calls on one orchestrator
MaxStarts == 2       \* SpecMonitor: start_stage calls of the client
MaxEnds == 3         \* SpecMonitor: end_stage calls of the client
MaxErrors == 1       \* SpecMonitor: record_error calls of the client
MaxSteps == 2        \* SpecData: steps of the chain of the DataTransformer
MaxNameLen == 3      \* SpecNames: characters of a column name
MaxRetries == 3      \* SpecApi: the argument `retries` of extract_from_api
MaxLimit == 2        \* SpecApi: the argument `limit`, and the records of one answer
MaxPages == 2        \* SpecApi: the argument `max_pages`
MaxPageNo == 6       \* SpecApi: the pages followed when max_pages is None
MaxRankRows == 3     \* SpecRank: rows of the Dataset ranked
MaxRows == 2         \* SpecAggregate: rows of the Dataset aggregated

\* Python's None.
Null == "None"

\* The abstract value of time.time() / datetime.now(): the model keeps only
\* whether a timestamp field has been set.
Now == "ts"

\* ----------------------------------------------------------------- Dataset
\* A DataFrame: its column labels and its rows (one cell per column).
\* pd.DataFrame() has neither columns nor rows.
EmptyDF == [columns |-> <<>>, rows |-> <<>>]

\* DataFrame.empty: true when either axis has length 0.
empty(df) == Len(df.rows) = 0 \/ Len(df.columns) = 0

\* len(DataFrame): the number of rows (the length of the index).
len(df) == Len(df.rows)

RECURSIVE ConcatRows(_)
ConcatRows(frames) ==
    IF frames = <<>> THEN <<>>
    ELSE Head(frames).rows \o ConcatRows(Tail(frames))

\* Mutant of concat: the frames are stacked last to first.
concat_Reversed(frames) ==
    [columns |-> Head(frames).columns,
     rows |-> ConcatRows([j \in 1..Len(frames) |-> frames[Len(frames) + 1 - j]])]

\* pd.concat(all_data, ignore_index=True) for frames with the same columns.
concat(frames) == [columns |-> Head(frames).columns, rows |-> ConcatRows(frames)]

\* n rows of the single column "value", every cell holding v.
Frame(n, v) == [columns |-> <<"value">>, rows |-> [r \in 1..n |-> <<v>>]]

\* A frame with an index of n labels and no column.
IndexOnly(n) == [columns |-> <<>>, rows |-> [r \in 1..n |-> <<>>]]

\* What the i-th registered source may return from extract(): one row whose
\* cell is i (so that rows of different sources differ) or pd.DataFrame(); the
\* first source may also return a frame with one row and no column.
SourceData(i) == {Frame(1, i), EmptyDF} \cup (IF i = 1 THEN {IndexOnly(1)} ELSE {})

\* ------------------------------------------------------- transformation steps
\* The callables given to add_transformation are the caller's; the chains of
\* the model are built from two: a row filter, and a step that always raises.
ChainSteps == {"filter", "raise"}

\* lambda df: df[df["value"] > 150] of the tests, with the cells of the model
\* (1, 2, ...) in place of 100, 200, ...: the rows whose cell exceeds 1 are kept.
step_filter(df) ==
    LET keep(r) == r[1] > 1
    IN  [df EXCEPT !.rows = SelectSeq(df.rows, keep)]

\* A step deriving a column, as add_prefix of the tests does for "name": every
\* cell of "value" is raised by one.
step_add(df) == [df EXCEPT !.rows = [r \in DOMAIN df.rows |-> <<df.rows[r][1] + 1>>]]

\* The steps of the chains whose data flow is followed object by object:
\* "add" works on a copy it makes and returns the copy (add_prefix of the
\* tests), "add_inplace" assigns the column of the frame it is handed and
\* returns that frame.
DataSteps == {"filter", "add", "add_inplace", "raise"}

\* Mutant of StepRaises: the error of a step is swallowed.
StepRaises_Never(step) == FALSE

\* Whether calling the step raises.
StepRaises(step) == step = "raise"

\* Whether the step returns the object it was handed, modified.
InPlace(step) == step = "add_inplace"

\* transform_func(result) for a step that returns: the content of the frame
\* returned.
ApplyStep(step, df) ==
    IF step = "filter" THEN step_filter(df)
    ELSE IF step \in {"add", "add_inplace"} THEN step_add(df)
    ELSE df

\* The errors raised: an adapter raises ConnectionError, a step ValueError.
NoError == [type |-> Null, text |-> Null]
AdapterError == [type |-> "ConnectionError", text |-> "adapter failed"]
StepError == [type |-> "ValueError", text |-> "step failed"]

\* The classes `except Exception` catches (the subclasses of Exception).
ExceptionClasses == {"Exception", "ConnectionError", "ValueError"}

\* Mutant of Catches: the handler is written `except ValueError`.
Catches_OnlyValueError(e) == e.type = "ValueError"

\* run(): whether the handler `except Exception as e` catches e.
Catches(e) == e.type \in ExceptionClasses

\* ----------------------------------------------------------- PipelineMonitor
\* PipelineMonitor.__init__
MonitorInit ==
    [metrics |-> [start_time |-> Null, end_time |-> Null, status |-> "not_started",
                  stages |-> <<>>, errors |-> <<>>],
     stage_start_time |-> Null,
     current_stage |-> Null,
     pipeline_start |-> Null]

\* PipelineMonitor.start_pipeline
start_pipeline(m) ==
    [m EXCEPT !.metrics.start_time = Now,
              !.metrics.status = "running",
              !.pipeline_start = Now]

\* PipelineMonitor.end_pipeline: without a start_pipeline before it, reading
\* self._pipeline_start raises AttributeError after end_time has been set.
EndPipelineRaises(m) == m.pipeline_start = Null

\* Mutant of end_pipeline: the status is set to "success" whatever the argument.
end_pipeline_AlwaysSuccess(m, success) ==
    IF EndPipelineRaises(m) THEN [m EXCEPT !.metrics.end_time = Now]
    ELSE [m EXCEPT !.metrics.end_time = Now, !.metrics.status = "success"]

\* PipelineMonitor.end_pipeline; the value returned is the dict self.metrics
\* itself.
end_pipeline(m, success) ==
    IF EndPipelineRaises(m) THEN [m EXCEPT !.metrics.end_time = Now]
    ELSE [m EXCEPT !.metrics.end_time = Now,
                   !.metrics.status = IF success THEN "success" ELSE "failed"]

\* PipelineMonitor.start_stage
start_stage(m, stage_name) ==
    [m EXCEPT !.current_stage = stage_name, !.stage_start_time = Now]

\* Mutant of end_stage: the early return for "no stage started" is missing.
end_stage_Unguarded(m, records_processed, success) ==
    [m EXCEPT !.metrics.stages =
                  Append(@, [name |-> m.current_stage,
                             records_processed |-> records_processed,
                             status |-> IF success THEN "success" ELSE "failed"]),
              !.current_stage = Null,
              !.stage_start_time = Null]

\* Mutant of end_stage: the record is inserted at the front of the list.
end_stage_Prepend(m, records_processed, success) ==
    IF m.stage_start_time = Null THEN m
    ELSE [m EXCEPT !.metrics.stages =
                       <<[name |-> m.current_stage,
                          records_processed |-> records_processed,
                          status |-> IF success THEN "success" ELSE "failed"]>> \o @,
                   !.current_stage = Null,
                   !.stage_start_time = Null]

\* PipelineMonitor.end_stage
end_stage(m, records_processed, success) ==
    IF m.stage_start_time = Null THEN m
    ELSE [m EXCEPT !.metrics.stages =
                       Append(@, [name |-> m.current_stage,
                                  records_processed |-> records_processed,
                                  status |-> IF success THEN "success" ELSE "failed"]),
                   !.current_stage = Null,
                   !.stage_start_time = Null]

\* Mutant of record_error: the stage argument is stored as given, without the
\* fallback to the current stage.
record_error_NoFallback(m, error, stage) ==
    [m EXCEPT !.metrics.errors = Append(@, [stage |-> stage, error |-> error])]

\* PipelineMonitor.record_error: `stage or self._current_stage`.
record_error(m, error, stage) ==
    [m EXCEPT !.metrics.errors =
                  Append(@, [stage |-> IF stage \in {Null, ""} THEN m.current_stage ELSE stage,
                             error |-> error])]

\* -------------------------------------------------------------------- state
VARIABLES
    monitor,           \* the PipelineMonitor (of the orchestrator, or the client's)
    extractors,        \* ETLPipeline.extractors
    transformer,       \* ETLPipeline.transformer
    loaders,           \* ETLPipeline.loaders
    pc,                \* position of run()
    i,                 \* run(): loop index i of the extract / load loop (1-based)
    k,                 \* DataTransformer.transform(): position in self.transformations
    all_data,          \* run(): all_data
    combined_data,     \* run(): combined_data
    transformed_data,  \* run(): transformed_data
    result,            \* DataTransformer.transform(): result
    success,           \* run(): success
    exc,               \* the exception in flight or caught, NoError when none
    returned,          \* whether a caller holds the dict end_pipeline returned
    returned_value,    \* the content of that dict when it was last returned
    runs,              \* run() calls started so far
    calls,             \* history: adapter and step calls of the current run
    fetched,           \* history: Datasets the sources returned in the current run
    received,          \* history: Datasets handed to load() in the current run
    stage_base,        \* history: Len(metrics.stages) when the current run started
    error_base,        \* history: Len(metrics.errors) when the current run started
    soft,              \* history: a connect, load or disconnect of the current run
                       \*          returned False
    wrote,             \* history: a load of the current run returned True
    ran_with,          \* history: self.extractors, self.transformer and self.loaders
                       \*          when the current run started
    start_calls,       \* history: start_stage calls of the client (SpecMonitor)
    end_calls,         \* history: end_stage calls of the client
    pending,           \* history: name given to the start_stage not yet ended, or Null
    completed          \* history: <<name, records_processed>> of each start_stage /
                       \*          end_stage pair completed, in the order of the end_stage calls

VARIABLES
    objects,           \* the Dataset objects alive, by reference: objects[r] is the
                       \* content of the object r (SpecData)
    source_refs,       \* run(): the objects the sources returned, in order
    combined_ref,      \* run(): the object combined_data names, 0 before it exists
    result_ref,        \* transform(): the object result names, 0 before it exists
    created,           \* history: created[r] is the content object r had when it
                       \*          was created
    argument,          \* the arguments of the transform function called (SpecNames,
                       \* SpecAggregate), Null when none is
    results,           \* what the successive calls of that function returned
    api                \* the call of extract_from_api / extract_paginated_api under
                       \* way: its position, locals and history (SpecApi)

vars == <<monitor, extractors, transformer, loaders, pc, i, k, all_data, combined_data,
          transformed_data, result, success, exc, returned, returned_value, runs,
          calls, fetched, received, stage_base, error_base, soft, wrote, ran_with,
          start_calls, end_calls, pending, completed,
          objects, source_refs, combined_ref, result_ref, created, argument, results, api>>

config == <<extractors, transformer, loaders>>
locals == <<i, k, all_data, combined_data, transformed_data, result, success, exc>>
history == <<calls, fetched, received, stage_base, error_base, soft, wrote, ran_with>>
client == <<start_calls, end_calls, pending, completed>>
dataflow == <<objects, source_refs, combined_ref, result_ref, created>>
call == <<argument, results, api>>

\* The state of the orchestrator and of the Monitor.
program == <<monitor, config, pc, locals, returned, returned_value, runs, history, client>>

\* The variables that only the specifications of single operations use.
outside == <<dataflow, call>>

\* No Dataset object exists.
NoObjects ==
    /\ objects = <<>>
    /\ source_refs = <<>>
    /\ combined_ref = 0
    /\ result_ref = 0
    /\ created = <<>>

\* No function of extract/api.py has been called.
NoApiCall == api = [pc |-> "idle"]

\* No transform function has been called.
NoCall ==
    /\ argument = Null
    /\ results = <<>>
    /\ NoApiCall

\* ETLPipeline.__init__ and PipelineMonitor.__init__, but for self.extractors
\* and self.transformer.
Fresh ==
    /\ monitor = MonitorInit
    /\ loaders = <<>>
    /\ pc = "idle"
    /\ i = 1
    /\ k = 1
    /\ all_data = <<>>
    /\ combined_data = EmptyDF
    /\ transformed_data = EmptyDF
    /\ result = EmptyDF
    /\ success = TRUE
    /\ exc = NoError
    /\ returned = FALSE
    /\ returned_value = MonitorInit.metrics
    /\ runs = 0
    /\ calls = <<>>
    /\ fetched = <<>>
    /\ received = <<>>
    /\ stage_base = 0
    /\ error_base = 0
    /\ soft = FALSE
    /\ wrote = FALSE
    /\ ran_with = [extractors |-> <<>>,
                   transformer |-> [present |-> FALSE, transformations |-> <<>>],
                   loaders |-> <<>>]
    /\ start_calls = 0
    /\ end_calls = 0
    /\ pending = Null
    /\ completed = <<>>

\* ETLPipeline.__init__ (and PipelineMonitor.__init__)
Init ==
    /\ extractors = <<>>
    /\ transformer = [present |-> FALSE, transformations |-> <<>>]
    /\ Fresh
    /\ NoObjects
    /\ NoCall

\* ---------------------------------------------------------- ETLPipeline
\* One entry of `calls`: the operation `op` of the idx-th source / sink, or the
\* idx-th step of the chain.
Call(kind, idx, op) == [kind |-> kind, idx |-> idx, op |-> op]

\* Mutant of Raise: the failed call is attempted again.
Raise_Retry(e) ==
    /\ exc' = e
    /\ pc' = pc

\* An exception e leaves the try block of run(): the handler takes it, or it
\* propagates to the caller of run().
Raise(e) ==
    /\ exc' = e
    /\ pc' = IF Catches(e) THEN "except" ELSE "propagated"

\* Mutant of TransformApplies: the test for an empty combined Dataset is
\* missing.
TransformApplies_IgnoresEmpty(t, combined) == t.present

\* run(): `if self.transformer and not combined_data.empty`
TransformApplies(t, combined) == t.present /\ ~empty(combined)

\* Mutant of enumerate: the adapters are visited last to first.
enumerate_Reversed(adapters, n) == adapters[Len(adapters) + 1 - n]

\* run(): `for i, adapter in enumerate(adapters)`, the adapter of the i-th
\* iteration (1-based).
enumerate(adapters, n) == adapters[n]

\* What connect(), load() and disconnect() of an adapter return when they do
\* not raise: True, or False for a failure the adapter handled itself.
AdapterReturns == BOOLEAN

\* Mutant of Return: run() turns a False returned by an adapter into an error.
Return_Checked(ok, next) ==
    /\ soft' = (soft \/ ~ok)
    /\ exc' = IF ok THEN exc ELSE [type |-> "RuntimeError", text |-> "adapter returned False"]
    /\ pc' = IF ok THEN next ELSE "except"

\* An adapter call returns `ok`: run() discards the value and goes on to
\* `next`.
Return(ok, next) ==
    /\ soft' = (soft \/ ~ok)
    /\ exc' = exc
    /\ pc' = next

\* ETLPipeline.add_extractor: the n-th extractor registered is adapter n.
add_extractor ==
    /\ pc = "idle"
    /\ Len(extractors) < MaxSources
    /\ extractors' = Append(extractors, Len(extractors) + 1)
    /\ UNCHANGED <<monitor, transformer, loaders, pc, locals, returned, returned_value,
                   runs, history, client, outside>>

\* ETLPipeline.set_transformer, given a DataTransformer whose chain was built
\* with add_transformation; a transformer set before is replaced.
set_transformer ==
    /\ pc = "idle"
    /\ \E n \in 0..MaxChain : \E chain \in [1..n -> ChainSteps] :
           transformer' = [present |-> TRUE, transformations |-> chain]
    /\ UNCHANGED <<monitor, extractors, loaders, pc, locals, returned, returned_value,
                   runs, history, client, outside>>

\* DataTransformer.add_transformation on the transformer the pipeline holds:
\* the step is appended to its chain.
add_transformation ==
    /\ pc = "idle"
    /\ transformer.present
    /\ Len(transformer.transformations) < MaxChain
    /\ \E func \in ChainSteps :
           transformer' = [transformer EXCEPT !.transformations = Append(@, func)]
    /\ UNCHANGED <<monitor, extractors, loaders, pc, locals, returned, returned_value,
                   runs, history, client, outside>>

\* ETLPipeline.add_loader: the n-th loader registered is adapter n.
add_loader ==
    /\ pc = "idle"
    /\ Len(loaders) < MaxSinks
    /\ loaders' = Append(loaders, Len(loaders) + 1)
    /\ UNCHANGED <<monitor, extractors, transformer, pc, locals, returned, returned_value,
                   runs, history, client, outside>>

\* run(), up to the head of the extract loop.
RunStart ==
    /\ pc = "idle"
    /\ runs < MaxRuns
    /\ runs' = runs + 1
    /\ monitor' = start_stage(start_pipeline(monitor), "extract")
    /\ success' = TRUE
    /\ all_data' = <<>>
    /\ i' = 1
    /\ k' = 1
    /\ combined_data' = EmptyDF
    /\ transformed_data' = EmptyDF
    /\ result' = EmptyDF
    /\ exc' = NoError
    /\ calls' = <<>>
    /\ fetched' = <<>>
    /\ received' = <<>>
    /\ stage_base' = Len(monitor.metrics.stages)
    /\ error_base' = Len(monitor.metrics.errors)
    /\ soft' = FALSE
    /\ wrote' = FALSE
    /\ ran_with' = [extractors |-> extractors, transformer |-> transformer,
                    loaders |-> loaders]
    /\ pc' = "extract_loop"
    /\ UNCHANGED <<config, returned, returned_value, client, outside>>

\* extractor.connect()
ExtractConnect ==
    /\ pc = "extract_loop"
    /\ i <= Len(extractors)
    /\ calls' = Append(calls, Call("source", enumerate(extractors, i), "connect"))
    /\ \/ \E ok \in AdapterReturns : Return(ok, "extract_fetch")
       \/ Raise(AdapterError) /\ UNCHANGED soft
    /\ UNCHANGED <<monitor, config, i, k, all_data, combined_data, transformed_data, result,
                   success, returned, returned_value, runs, fetched, received,
                   stage_base, error_base, ran_with,
                   wrote, client, outside>>

\* data = extractor.extract(**kwargs); if not data.empty: all_data.append(data)
ExtractFetch ==
    /\ pc = "extract_fetch"
    /\ calls' = Append(calls, Call("source", enumerate(extractors, i), "extract"))
    /\ \/ \E data \in SourceData(enumerate(extractors, i)) :
              /\ fetched' = Append(fetched, data)
              /\ all_data' = IF ~empty(data) THEN Append(all_data, data) ELSE all_data
              /\ pc' = "extract_disconnect"
              /\ UNCHANGED exc
       \/ Raise(AdapterError) /\ UNCHANGED <<fetched, all_data>>
    /\ UNCHANGED <<monitor, config, i, k, combined_data, transformed_data, result,
                   success, returned, returned_value, runs, received,
                   stage_base, error_base, ran_with,
                   soft, wrote, client, outside>>

\* extractor.disconnect(), and the loop's next iteration.
ExtractDisconnect ==
    /\ pc = "extract_disconnect"
    /\ calls' = Append(calls, Call("source", enumerate(extractors, i), "disconnect"))
    /\ \/ \E ok \in AdapterReturns : Return(ok, "extract_loop") /\ i' = i + 1
       \/ Raise(AdapterError) /\ UNCHANGED <<i, soft>>
    /\ UNCHANGED <<monitor, config, k, all_data, combined_data, transformed_data, result,
                   success, returned, returned_value, runs, fetched, received,
                   stage_base, error_base, ran_with,
                   wrote, client, outside>>

\* run() from the end of the extract loop to the first step of the chain, or
\* to the head of the load loop when the chain is not applied.
ExtractEnd ==
    /\ pc = "extract_loop"
    /\ i > Len(extractors)
    /\ LET combined == IF all_data # <<>> THEN concat(all_data) ELSE EmptyDF
           ended == end_stage(monitor, len(combined), TRUE)
       IN  /\ combined_data' = combined
           /\ IF TransformApplies(transformer, combined)
              THEN /\ monitor' = start_stage(ended, "transform")
                   /\ result' = combined
                   /\ k' = 1
                   /\ pc' = "transform"
                   /\ UNCHANGED <<transformed_data, i>>
              ELSE /\ transformed_data' = combined
                   /\ monitor' = start_stage(ended, "load")
                   /\ i' = 1
                   /\ pc' = "load_loop"
                   /\ UNCHANGED <<result, k>>
    /\ UNCHANGED <<config, all_data, success, exc, returned, returned_value, runs,
                   history, client, outside>>

\* DataTransformer.transform(): one iteration, result = transform_func(result);
\* an error is logged and re-raised.
TransformStep ==
    /\ pc = "transform"
    /\ k <= Len(transformer.transformations)
    /\ calls' = Append(calls, Call("step", k, "call"))
    /\ IF StepRaises(transformer.transformations[k])
       THEN Raise(StepError) /\ UNCHANGED <<result, k>>
       ELSE /\ result' = ApplyStep(transformer.transformations[k], result)
            /\ k' = k + 1
            /\ UNCHANGED <<pc, exc>>
    /\ UNCHANGED <<monitor, config, i, all_data, combined_data, transformed_data,
                   success, returned, returned_value, runs, fetched, received,
                   stage_base, error_base, ran_with,
                   soft, wrote, client, outside>>

\* Mutant of TransformEnd: the load loop is given the combined Dataset.
TransformEnd_PassesInput ==
    /\ pc = "transform"
    /\ k > Len(transformer.transformations)
    /\ transformed_data' = combined_data
    /\ monitor' = start_stage(end_stage(monitor, len(result), TRUE), "load")
    /\ i' = 1
    /\ pc' = "load_loop"
    /\ UNCHANGED <<config, k, all_data, combined_data, result, success, exc, returned,
                   returned_value, runs, history, client, outside>>

\* transform() returns; run() ends the stage and reaches the load loop.
TransformEnd ==
    /\ pc = "transform"
    /\ k > Len(transformer.transformations)
    /\ transformed_data' = result
    /\ monitor' = start_stage(end_stage(monitor, len(result), TRUE), "load")
    /\ i' = 1
    /\ pc' = "load_loop"
    /\ UNCHANGED <<config, k, all_data, combined_data, result, success, exc, returned,
                   returned_value, runs, history, client, outside>>

\* loader.connect()
LoadConnect ==
    /\ pc = "load_loop"
    /\ i <= Len(loaders)
    /\ calls' = Append(calls, Call("sink", enumerate(loaders, i), "connect"))
    /\ \/ \E ok \in AdapterReturns : Return(ok, "load_write")
       \/ Raise(AdapterError) /\ UNCHANGED soft
    /\ UNCHANGED <<monitor, config, i, k, all_data, combined_data, transformed_data, result,
                   success, returned, returned_value, runs, fetched, received,
                   stage_base, error_base, ran_with,
                   wrote, client, outside>>

\* loader.load(transformed_data, **kwargs)
LoadWrite ==
    /\ pc = "load_write"
    /\ calls' = Append(calls, Call("sink", enumerate(loaders, i), "load"))
    /\ received' = Append(received, transformed_data)
    /\ \/ \E ok \in AdapterReturns :
              Return(ok, "load_disconnect") /\ wrote' = (wrote \/ ok)
       \/ Raise(AdapterError) /\ UNCHANGED <<soft, wrote>>
    /\ UNCHANGED <<monitor, config, i, k, all_data, combined_data, transformed_data, result,
                   success, returned, returned_value, runs, fetched,
                   stage_base, error_base, ran_with,
                   client, outside>>

\* loader.disconnect(), and the loop's next iteration.
LoadDisconnect ==
    /\ pc = "load_disconnect"
    /\ calls' = Append(calls, Call("sink", enumerate(loaders, i), "disconnect"))
    /\ \/ \E ok \in AdapterReturns : Return(ok, "load_loop") /\ i' = i + 1
       \/ Raise(AdapterError) /\ UNCHANGED <<i, soft>>
    /\ UNCHANGED <<monitor, config, k, all_data, combined_data, transformed_data, result,
                   success, returned, returned_value, runs, fetched, received,
                   stage_base, error_base, ran_with,
                   wrote, client, outside>>

\* run(): the end of the load loop and of the try block.
LoadEnd ==
    /\ pc = "load_loop"
    /\ i > Len(loaders)
    /\ monitor' = end_stage(monitor, len(transformed_data), TRUE)
    /\ pc' = "end"
    /\ UNCHANGED <<config, locals, returned, returned_value, runs, history, client, outside>>

\* run(): except Exception as e: record_error(str(e)); success = False
Except ==
    /\ pc = "except"
    /\ monitor' = record_error(monitor, exc.text, Null)
    /\ success' = FALSE
    /\ pc' = "end"
    /\ UNCHANGED <<config, i, k, all_data, combined_data, transformed_data, result, exc,
                   returned, returned_value, runs, history, client, outside>>

\* run(): return self.monitor.end_pipeline(success=success)
RunReturn ==
    /\ pc = "end"
    /\ monitor' = end_pipeline(monitor, success)
    /\ returned' = TRUE
    /\ returned_value' = monitor'.metrics
    /\ pc' = "idle"
    /\ UNCHANGED <<config, locals, runs, history, client, outside>>

Next ==
    \/ add_extractor
    \/ set_transformer
    \/ add_transformation
    \/ add_loader
    \/ RunStart
    \/ ExtractConnect
    \/ ExtractFetch
    \/ ExtractDisconnect
    \/ ExtractEnd
    \/ TransformStep
    \/ TransformEnd
    \/ LoadConnect
    \/ LoadWrite
    \/ LoadDisconnect
    \/ LoadEnd
    \/ Except
    \/ RunReturn

Spec == Init /\ [][Next]_vars

\* ------------------------------------------------ a client of the Monitor
\* The arguments the client passes.
ClientStages == {"extract", "load"}
ClientRecords == {95, 100}
ClientErrorStages == {Null, "load"}

pipeline == <<extractors, transformer, loaders, pc, locals, runs, history>>

\* monitor.start_pipeline()
MStartPipeline ==
    /\ monitor' = start_pipeline(monitor)
    /\ UNCHANGED <<pipeline, outside, returned, returned_value, client>>

\* metrics = monitor.end_pipeline(success)
MEndPipeline ==
    /\ \E s \in BOOLEAN : monitor' = end_pipeline(monitor, s)
    /\ IF EndPipelineRaises(monitor)
       THEN UNCHANGED <<returned, returned_value>>
       ELSE returned' = TRUE /\ returned_value' = monitor'.metrics
    /\ UNCHANGED <<pipeline, outside, client>>

\* monitor.start_stage(name)
MStartStage ==
    /\ start_calls < MaxStarts
    /\ \E name \in ClientStages :
           /\ monitor' = start_stage(monitor, name)
           /\ pending' = name
    /\ start_calls' = start_calls + 1
    /\ UNCHANGED <<pipeline, outside, returned, returned_value, end_calls, completed>>

\* monitor.end_stage(records_processed, success)
MEndStage ==
    /\ end_calls < MaxEnds
    /\ \E n \in ClientRecords, s \in BOOLEAN :
           /\ monitor' = end_stage(monitor, n, s)
           /\ completed' = IF pending # Null THEN Append(completed, <<pending, n>>)
                           ELSE completed
    /\ end_calls' = end_calls + 1
    /\ pending' = Null
    /\ UNCHANGED <<pipeline, outside, returned, returned_value, start_calls>>

\* monitor.record_error(error, stage)
MRecordError ==
    /\ Len(monitor.metrics.errors) < MaxErrors
    /\ \E stage \in ClientErrorStages :
           monitor' = record_error(monitor, "Connection timeout", stage)
    /\ UNCHANGED <<pipeline, outside, returned, returned_value, client>>

NextMonitor ==
    \/ MStartPipeline
    \/ MEndPipeline
    \/ MStartStage
    \/ MEndStage
    \/ MRecordError

SpecMonitor == Init /\ [][NextMonitor]_vars

\* ------------------------------------------- the data flow of run()
\* The path of the Datasets through run() and DataTransformer.transform(),
\* object by object: which frame each name refers to, and which frames a step
\* that assigns in place changes. The Monitor and the adapter protocol are
\* those of Spec and are left out here.

\* The chains of length n.
Chains(n) == [1..n -> DataSteps]

\* An orchestrator with some sources registered and possibly a transformer.
InitData ==
    /\ \E n \in 0..MaxSources : extractors = [j \in 1..n |-> j]
    /\ \/ transformer = [present |-> FALSE, transformations |-> <<>>]
       \/ \E n \in 0..MaxSteps : \E chain \in Chains(n) :
              transformer = [present |-> TRUE, transformations |-> chain]
    /\ Fresh
    /\ NoObjects
    /\ NoCall

\* A new object with this content: the objects and the reference to the new
\* one.
New(objs, content) == [objects |-> Append(objs, content), ref |-> Len(objs) + 1]

\* Mutant of copy: no copy is made, the reference itself is returned.
copy_Alias(objs, r) == [objects |-> objs, ref |-> r]

\* DataFrame.copy(): a new object with the content of the object r.
copy(objs, r) == New(objs, objs[r])

\* Mutant of transform_func: the chain is walked last to first.
transform_func_Reversed(chain, n) == chain[Len(chain) + 1 - n]

\* transform(): `for transform_func in self.transformations`, the step of the
\* n-th iteration.
transform_func(chain, n) == chain[n]

\* The contents created' records for the objects of objs2 that objs1 lacks.
Record(objs1, objs2) == created \o SubSeq(objs2, Len(objs1) + 1, Len(objs2))

\* run() is called.
DataRun ==
    /\ pc = "idle" /\ runs = 0
    /\ runs' = 1
    /\ i' = 1
    /\ pc' = "extract_loop"
    /\ UNCHANGED <<monitor, config, k, all_data, combined_data, transformed_data, result,
                   success, exc, returned, returned_value, history, client, call, dataflow>>

\* data = extractor.extract(**kwargs): the source returns a frame of its own.
DataFetch ==
    /\ pc = "extract_loop"
    /\ i <= Len(extractors)
    /\ \E data \in SourceData(enumerate(extractors, i)) :
           LET new == New(objects, data)
           IN  /\ objects' = new.objects
               /\ created' = Record(objects, new.objects)
               /\ source_refs' = Append(source_refs, new.ref)
    /\ i' = i + 1
    /\ UNCHANGED <<monitor, config, pc, k, all_data, combined_data, transformed_data, result,
                   success, exc, returned, returned_value, runs, history, client, call,
                   combined_ref, result_ref>>

\* run(): combined_data = pd.concat(all_data, ignore_index=True) or
\* pd.DataFrame(), a new frame either way; without a chain to apply,
\* transformed_data = combined_data.
DataCombine ==
    /\ pc = "extract_loop"
    /\ i > Len(extractors)
    /\ LET kept == SelectSeq(source_refs, LAMBDA r : ~empty(objects[r]))
           combined == IF kept # <<>> THEN concat([j \in DOMAIN kept |-> objects[kept[j]]])
                       ELSE EmptyDF
           new == New(objects, combined)
       IN  /\ objects' = new.objects
           /\ created' = Record(objects, new.objects)
           /\ combined_ref' = new.ref
           /\ IF TransformApplies(transformer, combined)
              THEN pc' = "transform_call" /\ UNCHANGED result_ref
              ELSE pc' = "load_loop" /\ result_ref' = new.ref
    /\ UNCHANGED <<monitor, config, i, k, all_data, combined_data, transformed_data, result,
                   success, exc, returned, returned_value, runs, history, client, call,
                   source_refs>>

\* transform(combined_data): result = data.copy()
DataTransformCall ==
    /\ pc = "transform_call"
    /\ LET new == copy(objects, combined_ref)
       IN  /\ objects' = new.objects
           /\ created' = Record(objects, new.objects)
           /\ result_ref' = new.ref
    /\ k' = 1
    /\ pc' = "transform"
    /\ UNCHANGED <<monitor, config, i, all_data, combined_data, transformed_data, result,
                   success, exc, returned, returned_value, runs, history, client, call,
                   source_refs, combined_ref>>

\* transform(): result = transform_func(result); an error is logged and
\* re-raised, and run() takes it in its handler.
DataStep ==
    /\ pc = "transform"
    /\ k <= Len(transformer.transformations)
    /\ LET step == transform_func(transformer.transformations, k)
           out == ApplyStep(step, objects[result_ref])
       IN  IF StepRaises(step)
           THEN /\ exc' = StepError
                /\ pc' = "except"
                /\ UNCHANGED <<k, objects, created, result_ref>>
           ELSE /\ IF InPlace(step)
                   THEN /\ objects' = [objects EXCEPT ![result_ref] = out]
                        /\ UNCHANGED <<created, result_ref>>
                   ELSE /\ objects' = New(objects, out).objects
                        /\ created' = Record(objects, objects')
                        /\ result_ref' = New(objects, out).ref
                /\ k' = k + 1
                /\ UNCHANGED <<pc, exc>>
    /\ UNCHANGED <<monitor, config, i, all_data, combined_data, transformed_data, result,
                   success, returned, returned_value, runs, history, client, call,
                   source_refs, combined_ref>>

\* transform() returns result; transformed_data names it.
DataTransformReturn ==
    /\ pc = "transform"
    /\ k > Len(transformer.transformations)
    /\ pc' = "load_loop"
    /\ UNCHANGED <<monitor, config, locals, returned, returned_value, runs, history, client, call,
                   dataflow>>

NextData ==
    \/ DataRun
    \/ DataFetch
    \/ DataCombine
    \/ DataTransformCall
    \/ DataStep
    \/ DataTransformReturn

SpecData == InitData /\ [][NextData]_vars

\* ------------------------------------------- standardize_column_names
\* A column name is a sequence of characters: a lower-case letter, an
\* upper-case letter, and the characters the function treats specially.
Chars == {"a", "B", " ", "-", ".", "_"}

\* The class [\s\-\.] of the first substitution.
IsSeparator(c) == c \in {" ", "-", "."}

\* The classes [a-z] and [A-Z].
IsLower(c) == c \in {"a", "b"}
IsUpper(c) == c \in {"A", "B"}

\* str.lower() on one character.
LowerChar(c) == IF c = "A" THEN "a" ELSE IF c = "B" THEN "b" ELSE c

\* re.sub(r'[\s\-\.]+', '_', name): every maximal run of separators becomes
\* one underscore.
RECURSIVE sub_separators(_)
sub_separators(name) ==
    IF name = <<>> THEN <<>>
    ELSE IF IsSeparator(Head(name))
         THEN IF Len(name) > 1 /\ IsSeparator(name[2])
              THEN sub_separators(Tail(name))
              ELSE <<"_">> \o sub_separators(Tail(name))
         ELSE <<Head(name)>> \o sub_separators(Tail(name))

\* re.sub(r'([a-z])([A-Z])', r'\1_\2', name): an underscore is put between a
\* lower-case letter and the upper-case letter that follows it.
RECURSIVE sub_camel(_)
sub_camel(name) ==
    IF Len(name) < 2 THEN name
    ELSE IF IsLower(name[1]) /\ IsUpper(name[2])
         THEN <<name[1], "_">> \o sub_camel(Tail(name))
         ELSE <<name[1]>> \o sub_camel(Tail(name))

\* name.lower()
lower(name) == [n \in DOMAIN name |-> LowerChar(name[n])]

\* re.sub(r'_+', '_', name): every run of underscores becomes one.
RECURSIVE sub_underscores(_)
sub_underscores(name) ==
    IF Len(name) < 2 THEN name
    ELSE IF name[1] = "_" /\ name[2] = "_"
         THEN sub_underscores(Tail(name))
         ELSE <<name[1]>> \o sub_underscores(Tail(name))

\* name.strip('_'): the leading and the trailing underscores are removed.
RECURSIVE strip(_)
strip(name) ==
    IF name = <<>> THEN name
    ELSE IF Head(name) = "_" THEN strip(Tail(name))
    ELSE IF name[Len(name)] = "_" THEN strip(SubSeq(name, 1, Len(name) - 1))
    ELSE name

\* Mutant of to_snake_case: the underscores are stripped first, before the
\* substitutions.
to_snake_case_StripFirst(name) ==
    sub_underscores(lower(sub_camel(sub_separators(strip(name)))))

\* to_snake_case of standardize_column_names.
to_snake_case(name) ==
    strip(sub_underscores(lower(sub_camel(sub_separators(name)))))

\* standardize_column_names(df), as the columns of the frame returned:
\* result.columns = [to_snake_case(col) for col in result.columns]
standardize_column_names(columns) ==
    [n \in DOMAIN columns |-> to_snake_case(columns[n])]

\* The names of at most n characters.
Names(n) == UNION {[1..m -> Chars] : m \in 0..n}

\* A frame with one column, of any name.
InitNames ==
    /\ extractors = <<>>
    /\ transformer = [present |-> FALSE, transformations |-> <<>>]
    /\ Fresh
    /\ NoObjects
    /\ NoApiCall
    /\ \E name \in Names(MaxNameLen) : argument = [columns |-> <<name>>]
    /\ results = <<>>

\* result = standardize_column_names(df)
Standardize ==
    /\ results = <<>>
    /\ results' = <<standardize_column_names(argument.columns)>>
    /\ UNCHANGED <<program, dataflow, argument, api>>

\* standardize_column_names(result), on the frame the last call returned.
StandardizeAgain ==
    /\ Len(results) = 1
    /\ results' = Append(results, standardize_column_names(results[1]))
    /\ UNCHANGED <<program, dataflow, argument, api>>

NextNames ==
    \/ Standardize
    \/ StandardizeAgain

SpecNames == InitNames /\ [][NextNames]_vars

\* ------------------------------------------------------ aggregate_data
\* The Datasets aggregated have the key columns "category" and "product" and
\* two value columns. A column name is a sequence of words and underscores,
\* so that joining and stripping act on it as on the string. A cell is a
\* number or NaN (a missing value, None included).
NaN == -1
isna(cell) == cell = NaN

Category == <<"category">>
Product == <<"product">>
Quantity == <<"quantity">>

\* The names the first value column may have: price, _price, total_value.
ValueNames == {<<"price">>, <<"_", "price">>, <<"total", "_", "value">>}

\* The rows a Dataset may hold: <<category, product, value, quantity>>.
AggregateRows == {1, 2, NaN} \X {1, NaN} \X {1, 2} \X {3, NaN}

\* One entry of the aggregations dict: the column and the function it is
\* mapped to (`list` false) or the list of functions (`list` true).
Aggregation(column, list, funcs) == [column |-> column, list |-> list, funcs |-> funcs]

\* The aggregations dicts tried, for a first value column named `value`; the
\* third mixes a single function with a list, as that of main.py does.
AggregationSpecs(value) ==
    { <<Aggregation(value, FALSE, <<"sum">>)>>,
      <<Aggregation(value, TRUE, <<"sum", "max">>)>>,
      <<Aggregation(value, FALSE, <<"sum">>), Aggregation(Quantity, TRUE, <<"min", "max">>)>>,
      <<Aggregation(Quantity, TRUE, <<"count">>)>> }

\* The position of the column named `name`.
ColumnIndex(df, name) == CHOOSE n \in DOMAIN df.columns : df.columns[n] = name

\* The key tuple of row r.
KeyOf(df, group_by, r) ==
    [n \in DOMAIN group_by |-> df.rows[r][ColumnIndex(df, group_by[n])]]

\* df.groupby(group_by): the keys of the groups. With the default dropna=True
\* a row with a missing value in a key column belongs to no group.
GroupKeys(df, group_by) ==
    {KeyOf(df, group_by, r) :
        r \in {q \in DOMAIN df.rows : \A n \in DOMAIN group_by : ~isna(KeyOf(df, group_by, q)[n])}}

\* The order of the groups (sort=True): by key, lexicographically.
KeyLess(a, b) ==
    \E n \in DOMAIN a : a[n] < b[n] /\ \A m \in 1..(n - 1) : a[m] = b[m]

RECURSIVE SortKeys(_)
SortKeys(keys) ==
    IF keys = {} THEN <<>>
    ELSE LET first == CHOOSE x \in keys : \A y \in keys \ {x} : KeyLess(x, y)
         IN  <<first>> \o SortKeys(keys \ {first})

\* The cells of `column` in the rows of the group `key` that are not missing.
GroupValues(df, group_by, key, column) ==
    LET inGroup(r) == KeyOf(df, group_by, r) = key /\ ~isna(df.rows[r][ColumnIndex(df, column)])
        members == SelectSeq([r \in DOMAIN df.rows |-> r], inGroup)
    IN  [n \in DOMAIN members |-> df.rows[members[n]][ColumnIndex(df, column)]]

RECURSIVE SumOf(_)
SumOf(values) == IF values = <<>> THEN 0 ELSE Head(values) + SumOf(Tail(values))

\* The named reductions; each skips the missing values.
Reduce(func, values) ==
    IF func = "sum" THEN SumOf(values)
    ELSE IF func = "count" THEN Len(values)
    ELSE IF values = <<>> THEN NaN
    ELSE IF func = "min"
         THEN CHOOSE v \in {values[n] : n \in DOMAIN values} :
                  \A n \in DOMAIN values : v <= values[n]
         ELSE CHOOSE v \in {values[n] : n \in DOMAIN values} :
                  \A n \in DOMAIN values : v >= values[n]

\* The (column, function) pairs of an aggregations dict, in its order.
RECURSIVE Pairs(_)
Pairs(aggregations) ==
    IF aggregations = <<>> THEN <<>>
    ELSE LET a == Head(aggregations)
         IN  [n \in DOMAIN a.funcs |-> <<a.column, <<a.funcs[n]>>>>] \o Pairs(Tail(aggregations))

\* .agg(aggregations) gives two-level columns when a value of the dict is a
\* list.
IsMultiIndex(aggregations) == \E n \in DOMAIN aggregations : aggregations[n].list

\* df.groupby(group_by).agg(aggregations).reset_index(): one row per group,
\* the key columns first; the columns are (name, function) pairs, ('key', '')
\* for a key, when they have two levels, else the names.
groupby_agg(df, group_by, aggregations) ==
    LET keys == SortKeys(GroupKeys(df, group_by))
        pairs == Pairs(aggregations)
        multi == IsMultiIndex(aggregations)
    IN  [multi |-> multi,
         columns |-> [n \in DOMAIN group_by |->
                         IF multi THEN <<group_by[n], <<>>>> ELSE group_by[n]]
                     \o [n \in DOMAIN pairs |-> IF multi THEN pairs[n] ELSE pairs[n][1]],
         rows |-> [g \in DOMAIN keys |->
                      keys[g] \o [n \in DOMAIN pairs |->
                                     Reduce(pairs[n][2][1],
                                            GroupValues(df, group_by, keys[g], pairs[n][1]))]]]

\* '_'.join(col).strip('_') if col[1] else col[0]
flatten(col) ==
    IF col[2] # <<>> THEN strip(col[1] \o <<"_">> \o col[2]) ELSE col[1]

\* aggregate_data(df, group_by, aggregations) of transform/join.py.
aggregate_data(df, group_by, aggregations) ==
    LET grouped == groupby_agg(df, group_by, aggregations)
    IN  IF grouped.multi
        THEN [grouped EXCEPT !.multi = FALSE,
                             !.columns = [n \in DOMAIN grouped.columns |->
                                             flatten(grouped.columns[n])]]
        ELSE grouped

\* DataTransformer.aggregate(data, group_by, aggregations)
aggregate(df, group_by, aggregations) == groupby_agg(df, group_by, aggregations)

\* The Datasets of at most n rows.
AggregateFrames(value, n) ==
    {[columns |-> <<Category, Product, value, Quantity>>, rows |-> rows] :
        rows \in UNION {[1..m -> AggregateRows] : m \in 0..n}}

\* A Dataset, a grouping key of one or two columns and an aggregations dict.
InitAggregate ==
    /\ extractors = <<>>
    /\ transformer = [present |-> FALSE, transformations |-> <<>>]
    /\ Fresh
    /\ NoObjects
    /\ NoApiCall
    /\ \E value \in ValueNames :
       \E df \in AggregateFrames(value, MaxRows) :
       \E group_by \in {<<Category>>, <<Category, Product>>} :
       \E aggregations \in AggregationSpecs(value) :
           argument = [df |-> df, group_by |-> group_by, aggregations |-> aggregations]
    /\ results = <<>>

\* result = aggregate_data(df, group_by, aggregations)
AggregateData ==
    /\ results = <<>>
    /\ results' = <<[op |-> "aggregate_data",
                     frame |-> aggregate_data(argument.df, argument.group_by,
                                              argument.aggregations)]>>
    /\ UNCHANGED <<program, dataflow, argument, api>>

\* result = DataTransformer().aggregate(df, group_by, aggregations)
Aggregate ==
    /\ results = <<>>
    /\ results' = <<[op |-> "aggregate",
                     frame |-> aggregate(argument.df, argument.group_by,
                                         argument.aggregations)]>>
    /\ UNCHANGED <<program, dataflow, argument, api>>

NextAggregate ==
    \/ AggregateData
    \/ Aggregate

SpecAggregate == InitAggregate /\ [][NextAggregate]_vars

\* ------------------------------------------------ calculate_percentages
\* A float: a rational n/d with d > 0, or one of nan, inf, -inf. Rounding is
\* not modelled.
Num(n, d) == [kind |-> "num", n |-> n, d |-> d]
NaNf == [kind |-> "nan", n |-> 0, d |-> 1]
Inf == [kind |-> "inf", n |-> 0, d |-> 1]
NegInf == [kind |-> "-inf", n |-> 0, d |-> 1]

\* cell / total for a cell and a sum of the input (numbers, the cell possibly
\* missing): division by zero gives nan, inf or -inf, and raises nothing.
Divide(cell, total) ==
    IF isna(cell) THEN NaNf
    ELSE IF total = 0
         THEN IF cell = 0 THEN NaNf ELSE IF cell > 0 THEN Inf ELSE NegInf
    ELSE IF total > 0 THEN Num(cell, total)
    ELSE Num(0 - cell, 0 - total)

\* x * 100
Times100(x) == IF x.kind = "num" THEN Num(100 * x.n, x.d) ELSE x

\* x + y
Plus(x, y) ==
    IF x.kind = "nan" \/ y.kind = "nan" THEN NaNf
    ELSE IF x.kind = "num" /\ y.kind = "num" THEN Num(x.n * y.d + y.n * x.d, x.d * y.d)
    ELSE IF x.kind = "num" THEN y
    ELSE IF y.kind = "num" \/ x.kind = y.kind THEN x
    ELSE NaNf

\* Series.sum() of floats: the missing values are skipped.
RECURSIVE FloatSum(_)
FloatSum(values) ==
    IF values = <<>> THEN Num(0, 1)
    ELSE IF Head(values).kind = "nan" THEN FloatSum(Tail(values))
    ELSE Plus(Head(values), FloatSum(Tail(values)))

\* Series.sum() of the cells of a column: the missing cells are skipped.
ColumnSum(cells) == SumOf(SelectSeq(cells, LAMBDA c : ~isna(c)))

\* The cells of the column `name`, by row.
Column(df, name) == [r \in DOMAIN df.rows |-> df.rows[r][ColumnIndex(df, name)]]

\* Mutant of Percentage: the share is not scaled to a percentage.
Percentage_Unscaled(cell, total) == Divide(cell, total)

\* (x / x.sum()) * 100 for one cell x of the column
Percentage(cell, total) == Times100(Divide(cell, total))

\* The sum of the value column over the rows that have the key of row r; a
\* row with a missing key cell is in no group.
GroupSum(df, group_by, value_column, r) ==
    ColumnSum(GroupValues(df, group_by, KeyOf(df, group_by, r), value_column))

\* calculate_percentages(df, value_column, group_by): the frame returned, the
\* new column '<value_column>_pct' last. group_by = <<>> stands for None.
calculate_percentages(df, value_column, group_by) ==
    LET inGroup(r) == \A n \in DOMAIN group_by : ~isna(KeyOf(df, group_by, r)[n])
        pct(r) ==
            IF group_by # <<>>
            THEN IF inGroup(r)
                 THEN Percentage(df.rows[r][ColumnIndex(df, value_column)],
                                 GroupSum(df, group_by, value_column, r))
                 ELSE NaNf
            ELSE Percentage(df.rows[r][ColumnIndex(df, value_column)],
                            ColumnSum(Column(df, value_column)))
    IN  [columns |-> Append(df.columns, value_column \o <<"_", "pct">>),
         rows |-> [r \in DOMAIN df.rows |-> Append(df.rows[r], pct(r))]]

Price == <<"price">>

\* The rows of the Datasets tried: <<category, price>>.
PercentRows == {1, 2, NaN} \X {0 - 2, 0, 1, 2, NaN}

\* A Dataset of at most MaxRows rows, with or without a grouping key.
InitPercent ==
    /\ extractors = <<>>
    /\ transformer = [present |-> FALSE, transformations |-> <<>>]
    /\ Fresh
    /\ NoObjects
    /\ NoApiCall
    /\ \E m \in 0..MaxRows : \E rows \in [1..m -> PercentRows] :
       \E group_by \in {<<>>, <<Category>>} :
           argument = [df |-> [columns |-> <<Category, Price>>, rows |-> rows],
                       value_column |-> Price, group_by |-> group_by]
    /\ results = <<>>

\* result = calculate_percentages(df, value_column, group_by)
CalculatePercentages ==
    /\ results = <<>>
    /\ results' = <<calculate_percentages(argument.df, argument.value_column,
                                          argument.group_by)>>
    /\ UNCHANGED <<program, dataflow, argument, api>>

NextPercent == CalculatePercentages

SpecPercent == InitPercent /\ [][NextPercent]_vars

\* -------------------------------------------------- fill_missing_values
\* The Datasets filled have the columns "value" and "quantity"; a cell is a
\* number or NaN.
Value == <<"value">>

\* A name that is no column of the Datasets.
Missing == <<"missing">>

\* A raised ValueError, in the place of the frame returned.
ValueError == [raised |-> "ValueError"]

\* The fill strategies tried; "none" stands for a name the function does not
\* know.
Strategies == {"constant", "ffill", "bfill", "mode", "none"}

\* Mutant of fillna: every cell is overwritten.
fillna_Overwrite(cells, value) == [r \in DOMAIN cells |-> value]

\* Series.fillna(value): the missing cells take the value.
fillna(cells, value) ==
    [r \in DOMAIN cells |-> IF isna(cells[r]) THEN value ELSE cells[r]]

\* Series.ffill(): a missing cell takes the last value above it, if any.
ffill(cells) ==
    [r \in DOMAIN cells |->
        LET above == {q \in 1..r : ~isna(cells[q])}
        IN  IF above = {} THEN NaN
            ELSE cells[CHOOSE q \in above : \A p \in above : p <= q]]

\* Series.bfill(): a missing cell takes the first value below it, if any.
bfill(cells) ==
    [r \in DOMAIN cells |->
        LET below == {q \in r..Len(cells) : ~isna(cells[q])}
        IN  IF below = {} THEN NaN
            ELSE cells[CHOOSE q \in below : \A p \in below : q <= p]]

\* Series.mode(): the most frequent values that are not missing, ascending;
\* here the set of them.
mode(cells) ==
    LET count(v) == Cardinality({r \in DOMAIN cells : cells[r] = v})
        present == {cells[r] : r \in DOMAIN cells} \ {NaN}
    IN  {v \in present : \A w \in present : count(w) <= count(v)}

\* mode_values.iloc[0]
Smallest(values) == CHOOSE v \in values : \A w \in values : v <= w

\* A column with a missing cell; one without is skipped by the loop.
HasMissing(cells) == \E r \in DOMAIN cells : isna(cells[r])

\* result[col].fillna(None) raises ValueError: strategy 'constant' without a
\* fill value, on a column with a missing cell.
FillRaises(cells, strategy, fill_value) ==
    HasMissing(cells) /\ strategy = "constant" /\ isna(fill_value)

\* The body of the loop of fill_missing_values for one column: the column
\* filled by the strategy.
FillColumn(cells, strategy, fill_value) ==
    IF ~HasMissing(cells) THEN cells
    ELSE IF strategy = "constant" THEN fillna(cells, fill_value)
    ELSE IF strategy = "ffill" THEN ffill(cells)
    ELSE IF strategy = "bfill" THEN bfill(cells)
    ELSE IF strategy = "mode"
         THEN IF mode(cells) # {} THEN fillna(cells, Smallest(mode(cells)))
              ELSE cells
    ELSE cells

\* target_columns = columns if columns else result.columns; a listed name
\* that is no column of the frame is skipped.
TargetColumns(df, columns) ==
    IF columns = <<>> THEN {n \in DOMAIN df.columns : TRUE}
    ELSE {n \in DOMAIN df.columns : \E c \in DOMAIN columns : columns[c] = df.columns[n]}

\* fill_missing_values(df, strategy, fill_value, columns): the frame
\* returned, or the error raised. columns = <<>> stands for None.
fill_missing_values(df, strategy, fill_value, columns) ==
    LET filled(n) == FillColumn(Column(df, df.columns[n]), strategy, fill_value)
        targets == TargetColumns(df, columns)
    IN  IF \E n \in targets : FillRaises(Column(df, df.columns[n]), strategy, fill_value)
        THEN ValueError
        ELSE [columns |-> df.columns,
              rows |-> [r \in DOMAIN df.rows |->
                          [n \in DOMAIN df.columns |->
                              IF n \in targets THEN filled(n)[r]
                              ELSE df.rows[r][n]]]]

\* The rows of the Datasets filled: <<value, quantity>>.
FillRows == {1, 2, NaN} \X {3, NaN}

\* A Dataset of at most MaxRows rows, a strategy, a fill value (NaN for
\* None) and the columns to fill.
InitFill ==
    /\ extractors = <<>>
    /\ transformer = [present |-> FALSE, transformations |-> <<>>]
    /\ Fresh
    /\ NoObjects
    /\ NoApiCall
    /\ \E m \in 0..MaxRows : \E rows \in [1..m -> FillRows] :
       \E strategy \in Strategies : \E fill_value \in {0, 2, NaN} :
       \E columns \in {<<>>, <<Value>>, <<Quantity, Missing>>} :
           argument = [df |-> [columns |-> <<Value, Quantity>>, rows |-> rows],
                       strategy |-> strategy, fill_value |-> fill_value,
                       columns |-> columns]
    /\ results = <<>>

\* result = fill_missing_values(df, strategy, fill_value, columns)
FillMissingValues ==
    /\ results = <<>>
    /\ results' = <<fill_missing_values(argument.df, argument.strategy,
                                        argument.fill_value, argument.columns)>>
    /\ UNCHANGED <<program, dataflow, argument, api>>

NextFill == FillMissingValues

SpecFill == InitFill /\ [][NextFill]_vars

\* ------------------------------------------------------------ rank_data
\* The tie-breaking methods modelled.
Methods == {"dense", "min", "max"}

\* v comes before w in the order ranked: larger first when descending.
Before(v, w, ascending) == IF ascending THEN v < w ELSE v > w

\* Mutant of DenseRank: the rows before are counted, not their distinct
\* values.
DenseRank_CountRows(values, v, ascending) ==
    1 + Cardinality({q \in DOMAIN values : Before(values[q], v, ascending)})

\* method='dense': one more than the number of distinct values before v.
DenseRank(values, v, ascending) ==
    1 + Cardinality({values[q] : q \in {p \in DOMAIN values :
                                            Before(values[p], v, ascending)}})

\* Series.rank(method, ascending) of the value v among `values`, none of
\* them missing. The rank is a float with an integral value.
RankOf(values, v, method, ascending) ==
    LET before == Cardinality({q \in DOMAIN values : Before(values[q], v, ascending)})
        ties == Cardinality({q \in DOMAIN values : values[q] = v})
    IN  IF method = "dense" THEN DenseRank(values, v, ascending)
        ELSE IF method = "min" THEN before + 1
        ELSE before + ties

\* rank_data(df, column, ascending, method, group_by): the frame returned,
\* the new column '<column>_rank' last. A missing cell has the rank NaN
\* (na_option='keep'), and so has a row with a missing key cell; group_by =
\* <<>> stands for None.
rank_data(df, column, ascending, method, group_by) ==
    LET inGroup(r) == \A n \in DOMAIN group_by : ~isna(KeyOf(df, group_by, r)[n])
        cell(r) == df.rows[r][ColumnIndex(df, column)]
        ranked(r) ==
            IF group_by # <<>>
            THEN GroupValues(df, group_by, KeyOf(df, group_by, r), column)
            ELSE SelectSeq(Column(df, column), LAMBDA c : ~isna(c))
        rank(r) ==
            IF isna(cell(r)) \/ ~inGroup(r) THEN NaN
            ELSE RankOf(ranked(r), cell(r), method, ascending)
    IN  [columns |-> Append(df.columns, column \o <<"_", "rank">>),
         rows |-> [r \in DOMAIN df.rows |-> Append(df.rows[r], rank(r))]]

\* The rows of the Datasets ranked: <<category, price>>.
RankRows == {1, NaN} \X {10, 20, 30, NaN}

\* A Dataset of at most MaxRankRows rows, a direction, a method, and a
\* grouping key or none.
InitRank ==
    /\ extractors = <<>>
    /\ transformer = [present |-> FALSE, transformations |-> <<>>]
    /\ Fresh
    /\ NoObjects
    /\ NoApiCall
    /\ \E m \in 0..MaxRankRows : \E rows \in [1..m -> RankRows] :
       \E ascending \in BOOLEAN : \E method \in Methods :
       \E group_by \in {<<>>, <<Category>>} :
           argument = [df |-> [columns |-> <<Category, Price>>, rows |-> rows],
                       column |-> Price, ascending |-> ascending,
                       method |-> method, group_by |-> group_by]
    /\ results = <<>>

\* result = rank_data(df, column, ascending, method, group_by)
RankData ==
    /\ results = <<>>
    /\ results' = <<rank_data(argument.df, argument.column, argument.ascending,
                              argument.method, argument.group_by)>>
    /\ UNCHANGED <<program, dataflow, argument, api>>

NextRank == RankData

SpecRank == InitRank /\ [][NextRank]_vars

\* ------------------------------------------- convert_dtypes, convert_types
\* The cells of the Datasets converted: an int n, the string of the int n
\* ("1"), a string that is no number ("abc", n = 0), a float of n halves
\* (n = 3 is 1.5), or a missing value (n = 0).
ConvertCells ==
    {[kind |-> "int", n |-> 1], [kind |-> "str", n |-> 2], [kind |-> "text", n |-> 0],
     [kind |-> "float", n |-> 3], [kind |-> "nan", n |-> 0]}

\* pd.to_numeric(column, errors='coerce'): a number stays, the string of a
\* number is parsed, and what cannot be parsed becomes NaN and raises
\* nothing. The column is int64 when every cell is an int, else float64.
to_numeric(cells) ==
    LET num(c) == IF c.kind \in {"int", "str"} THEN [kind |-> "int", n |-> c.n]
                  ELSE IF c.kind = "float" THEN c
                  ELSE [kind |-> "nan", n |-> 0]
        float(c) == IF c.kind = "int" THEN [kind |-> "float", n |-> 2 * c.n] ELSE c
    IN  IF \A r \in DOMAIN cells : num(cells[r]).kind = "int"
        THEN [r \in DOMAIN cells |-> num(cells[r])]
        ELSE [r \in DOMAIN cells |-> float(num(cells[r]))]

\* column.astype(dtype) raises: int() of a string that is no number or of a
\* missing value, float() of a string that is no number.
AstypeRaises(cells, dtype) ==
    \E r \in DOMAIN cells :
        \/ cells[r].kind = "text"
        \/ dtype = "int" /\ cells[r].kind = "nan"

\* column.astype(dtype) for dtype 'int' and 'float', when it does not raise:
\* int() truncates a float, float() keeps a missing value.
astype(cells, dtype) ==
    [r \in DOMAIN cells |->
        LET c == cells[r]
        IN  IF dtype = "int"
            THEN [kind |-> "int", n |-> IF c.kind = "float" THEN c.n \div 2 ELSE c.n]
            ELSE IF c.kind \in {"int", "str"} THEN [kind |-> "float", n |-> 2 * c.n]
            ELSE c]

\* convert_dtypes(df, dtype_map) of transform/clean.py, for the targets 'int'
\* and 'float'; dtype_map is the sequence of its (column, dtype) items. A
\* name that is no column is skipped. astype('Int64') raises on a float that
\* is no whole number, and the handler leaves the column as it was.
convert_dtypes(df, dtype_map) ==
    LET cells(n) == Column(df, df.columns[n])
        listed(n) == {m \in DOMAIN dtype_map : dtype_map[m][1] = df.columns[n]}
        dtype(n) == dtype_map[CHOOSE m \in listed(n) : TRUE][2]
        numeric(n) == to_numeric(cells(n))
        Int64(n) == IF \E r \in DOMAIN numeric(n) :
                          numeric(n)[r].kind = "float" /\ numeric(n)[r].n % 2 = 1
                    THEN cells(n)
                    ELSE [r \in DOMAIN numeric(n) |->
                             IF numeric(n)[r].kind = "float"
                             THEN [kind |-> "int", n |-> numeric(n)[r].n \div 2]
                             ELSE numeric(n)[r]]
        converted(n) == IF listed(n) = {} THEN cells(n)
                        ELSE IF dtype(n) = "int" THEN Int64(n)
                        ELSE numeric(n)
    IN  [columns |-> df.columns,
         rows |-> [r \in DOMAIN df.rows |->
                     [n \in DOMAIN df.columns |-> converted(n)[r]]]]

\* DataTransformer.convert_types(data, type_mapping), for the targets 'int'
\* and 'float': a column whose astype raises is left as it was.
convert_types(data, type_mapping) ==
    LET cells(n) == Column(data, data.columns[n])
        listed(n) == {m \in DOMAIN type_mapping : type_mapping[m][1] = data.columns[n]}
        dtype(n) == type_mapping[CHOOSE m \in listed(n) : TRUE][2]
        converted(n) == IF listed(n) = {} \/ AstypeRaises(cells(n), dtype(n))
                        THEN cells(n)
                        ELSE astype(cells(n), dtype(n))
    IN  [columns |-> data.columns,
         rows |-> [r \in DOMAIN data.rows |->
                     [n \in DOMAIN data.columns |-> converted(n)[r]]]]

\* A Dataset of at most MaxRows rows with the columns "value" and "quantity"
\* and a mapping of one or two names to 'int' or 'float'.
InitConvert ==
    /\ extractors = <<>>
    /\ transformer = [present |-> FALSE, transformations |-> <<>>]
    /\ Fresh
    /\ NoObjects
    /\ NoApiCall
    /\ \E m \in 0..MaxRows : \E rows \in [1..m -> ConvertCells \X ConvertCells] :
       \E first \in {"int", "float"} : \E second \in {"int", "float"} :
       \E dtype_map \in {<<<<Value, first>>>>, <<<<Value, first>>, <<Quantity, second>>>>,
                         <<<<Missing, first>>, <<Quantity, second>>>>} :
           argument = [df |-> [columns |-> <<Value, Quantity>>, rows |-> rows],
                       dtype_map |-> dtype_map]
    /\ results = <<>>

\* result = convert_dtypes(df, dtype_map)
ConvertDtypes ==
    /\ results = <<>>
    /\ results' = <<convert_dtypes(argument.df, argument.dtype_map)>>
    /\ UNCHANGED <<program, dataflow, argument, api>>

\* result = DataTransformer().convert_types(df, dtype_map)
ConvertTypes ==
    /\ results = <<>>
    /\ results' = <<convert_types(argument.df, argument.dtype_map)>>
    /\ UNCHANGED <<program, dataflow, argument, api>>

NextConvert == ConvertDtypes \/ ConvertTypes

SpecConvert == InitConvert /\ [][NextConvert]_vars

\* --------------------------------- extract_from_api, extract_paginated_api
\* retries=2 of the call extract_paginated_api makes for each page.
PageRetries == 2

\* max_pages = None
AllPages == 0 - 1

\* What the server may answer to one request: a failure of the request
\* (requests.RequestException: connection, timeout, HTTP status, a body that
\* is not JSON), a JSON body that is neither a list nor an object, or a list
\* of n records.
Responses ==
    {[kind |-> "error", n |-> 0], [kind |-> "format", n |-> 0]}
        \cup {[kind |-> "list", n |-> n] : n \in 0..MaxLimit}

\* pd.DataFrame(data) for the n records answered to the q-th request; each
\* record is told from every other by its cell.
DataFrame(q, n) ==
    IF n = 0 THEN EmptyDF
    ELSE [columns |-> <<"value">>, rows |-> [j \in 1..n |-> <<10 * q + j>>]]

\* The call at its entry: extract_from_api at the head of its loop over the
\* attempts, extract_paginated_api at the head of its loop over the pages.
\* events lists the requests made, each followed by its outcome, and the
\* sleeps; pages the page numbers asked for, outcomes what extract_from_api
\* gave for each.
Entry(function) ==
    [pc |-> IF function = "extract_from_api" THEN "attempt" ELSE "page_head",
     attempt |-> 0, events |-> <<>>, df |-> EmptyDF, error |-> Null,
     page |-> 1, all_data |-> <<>>, pages |-> <<>>, outcomes |-> <<>>,
     value |-> EmptyDF]

\* The `retries` extract_from_api runs with, and whether it was called by
\* the caller itself or for a page.
Retries == IF argument.function = "extract_from_api" THEN argument.retries ELSE PageRetries
TopLevel == argument.function = "extract_from_api"

\* Mutant of Sleeps: the function sleeps after every failed attempt.
Sleeps_AfterEvery(attempt, retries) == TRUE

\* if attempt < retries - 1: time.sleep(retry_delay), else: raise
Sleeps(attempt, retries) == attempt < retries - 1

\* Of a call of extract_paginated_api that has fetched pages 1..MaxPageNo and
\* goes on, the model keeps the position, the attempt, and the number of
\* records or the error of the page in hand; the page number, the requests
\* made and the pages kept are held no longer, nor is the value returned.
Past(position, attempt, n, error) ==
    [pc |-> position, attempt |-> attempt, n |-> n, error |-> error]

\* The call is followed with its page number and its data.
Followed == "page" \in DOMAIN api

\* One iteration of `for attempt in range(retries)`: the request, and what
\* follows from its outcome. A list is returned as a frame; a body of
\* another format raises ValueError, which no handler here catches; a failed
\* request is followed by a sleep and the next attempt, or re-raised.
Attempt ==
    /\ api.pc = "attempt"
    /\ api.attempt < Retries
    /\ \E response \in Responses :
        IF Followed
        THEN LET q == 1 + Cardinality({n \in DOMAIN api.events : api.events[n] = "request"})
                 requested == Append(api.events, "request")
             IN  api' =
                   IF response.kind = "list"
                   THEN [api EXCEPT !.events = Append(requested, "succeeded"),
                                    !.df = DataFrame(q, response.n),
                                    !.error = Null,
                                    !.value = IF TopLevel THEN DataFrame(q, response.n) ELSE @,
                                    !.pc = IF TopLevel THEN "returned" ELSE "page_result"]
                   ELSE IF response.kind = "format"
                   THEN [api EXCEPT !.events = Append(requested, "unparsed"),
                                    !.error = "ValueError",
                                    !.pc = "raised"]
                   ELSE IF Sleeps(api.attempt, Retries)
                   THEN [api EXCEPT !.events = requested \o <<"failed", "sleep">>,
                                    !.attempt = @ + 1]
                   ELSE [api EXCEPT !.events = Append(requested, "failed"),
                                    !.error = "RequestException",
                                    !.pc = IF TopLevel THEN "raised" ELSE "page_result"]
        ELSE api' =
               IF response.kind = "list"
               THEN Past("page_result", api.attempt, response.n, Null)
               ELSE IF response.kind = "format"
               THEN Past("raised", api.attempt, 0, "ValueError")
               ELSE IF Sleeps(api.attempt, Retries)
               THEN Past("attempt", api.attempt + 1, 0, Null)
               ELSE Past("page_result", api.attempt, 0, "RequestException")
    /\ UNCHANGED <<program, dataflow, argument, results>>

\* `return pd.DataFrame()` after the loop over the attempts: reached when the
\* loop ends without a return or a raise (retries = 0).
FallThrough ==
    /\ api.pc = "attempt"
    /\ api.attempt >= Retries
    /\ api' = [api EXCEPT !.df = EmptyDF, !.error = Null,
                          !.value = IF TopLevel THEN EmptyDF ELSE @,
                          !.pc = IF TopLevel THEN "returned" ELSE "page_result"]
    /\ UNCHANGED <<program, dataflow, argument, results>>

\* `while max_pages is None or page <= max_pages`, and the call of
\* extract_from_api for the page. Past page MaxPageNo the loop goes on as
\* before, followed without its data; it is there only with max_pages None,
\* MaxPages being less than MaxPageNo.
PageHead ==
    /\ api.pc = "page_head"
    /\ api' = IF ~Followed
              THEN Past("attempt", 0, 0, Null)
              ELSE IF argument.max_pages = AllPages \/ api.page <= argument.max_pages
              THEN IF api.page <= MaxPageNo
                   THEN [api EXCEPT !.pages = Append(@, api.page),
                                    !.attempt = 0,
                                    !.pc = "attempt"]
                   ELSE Past("attempt", 0, 0, Null)
              ELSE [api EXCEPT !.pc = "page_end"]
    /\ UNCHANGED <<program, dataflow, argument, results>>

\* Mutant of StopsPaging: a short page does not end the loop.
StopsPaging_Never(rows, limit) == FALSE

\* if len(df) < limit: break
StopsPaging(rows, limit) == rows < limit

\* The body of the loop over the pages once extract_from_api has returned
\* the page or raised RequestException.
PageResult ==
    /\ api.pc = "page_result"
    /\ IF Followed
       THEN LET seen == [api EXCEPT !.outcomes = Append(@, [df |-> api.df,
                                                           error |-> api.error])]
                kept == Append(api.all_data, api.df)
            IN  api' =
                  IF api.error = "RequestException" \/ empty(api.df)
                  THEN [seen EXCEPT !.pc = "page_end"]
                  ELSE IF StopsPaging(len(api.df), argument.limit)
                  THEN [seen EXCEPT !.all_data = kept, !.pc = "page_end"]
                  ELSE [seen EXCEPT !.all_data = kept,
                                    !.page = @ + 1,
                                    !.pc = "page_head"]
       ELSE api' =
              IF api.error = "RequestException" \/ api.n = 0
                   \/ StopsPaging(api.n, argument.limit)
              THEN Past("page_end", api.attempt, api.n, api.error)
              ELSE Past("page_head", api.attempt, api.n, api.error)
    /\ UNCHANGED <<program, dataflow, argument, results>>

\* After the loop over the pages: pd.concat(all_data, ignore_index=True), or
\* pd.DataFrame() when no page was kept.
PageReturn ==
    /\ api.pc = "page_end"
    /\ api' = IF Followed
              THEN [api EXCEPT !.value = IF api.all_data # <<>> THEN concat(api.all_data)
                                         ELSE EmptyDF,
                               !.pc = "returned"]
              ELSE Past("returned", api.attempt, api.n, api.error)
    /\ UNCHANGED <<program, dataflow, argument, results>>

\* A call of extract_from_api with some `retries`, or of
\* extract_paginated_api with some `limit` and `max_pages`.
InitApi ==
    /\ extractors = <<>>
    /\ transformer = [present |-> FALSE, transformations |-> <<>>]
    /\ Fresh
    /\ NoObjects
    /\ results = <<>>
    /\ \/ \E retries \in 0..MaxRetries :
              argument = [function |-> "extract_from_api", retries |-> retries,
                          limit |-> MaxLimit, max_pages |-> AllPages]
       \/ \E limit \in 1..MaxLimit : \E max_pages \in {AllPages} \cup 0..MaxPages :
              argument = [function |-> "extract_paginated_api", retries |-> PageRetries,
                          limit |-> limit, max_pages |-> max_pages]
    /\ api = Entry(argument.function)

NextApi ==
    \/ Attempt
    \/ FallThrough
    \/ PageHead
    \/ PageResult
    \/ PageReturn

SpecApi == InitApi /\ [][NextApi]_vars

\* The function runs on: a step that can be taken is taken.
SpecApiFair == SpecApi /\ WF_vars(NextApi)

\* =================================================================== claims
IsPrefix(s, t) == Len(s) <= Len(t) /\ SubSeq(t, 1, Len(s)) = s

\* run() has returned at least once and no run is in progress.
Returned == pc = "idle" /\ runs > 0

\* The current (or last) run was left through the handler.
Failed == exc # NoError

\* The stage and error records appended to the metrics since the current run
\* started.
RunStages == SubSeq(monitor.metrics.stages, stage_base + 1, Len(monitor.metrics.stages))
RunErrors == SubSeq(monitor.metrics.errors, error_base + 1, Len(monitor.metrics.errors))

\* The stage run() is in while it makes a call of this kind.
StageOfCall(c) ==
    IF c.kind = "source" THEN "extract"
    ELSE IF c.kind = "step" THEN "transform"
    ELSE "load"

\* ------------------------------------------------------------------- C1
\* C1: run() never propagates an exception raised by an adapter or a step:
\* every run() that ends has returned a metrics object whose status is
\* 'success' or 'failed'.
C1_RunNeverPropagates ==
    /\ pc # "propagated"
    /\ Returned => returned /\ returned_value.status \in {"success", "failed"}

\* Witness: a run in which an adapter raised has returned 'failed'.
C1_Witness ==
    /\ Returned
    /\ exc = AdapterError
    /\ returned_value.status = "failed"

\* ------------------------------------------------------------------- C2
\* C2: a run in which an adapter call or a step raised has appended exactly
\* one error record; its stage is the stage that was active when the error
\* was raised, its message the error's text, and the returned status is
\* 'failed'. A raising step gives stage 'transform'.
C2_OneErrorRecord ==
    (Returned /\ Failed) =>
        /\ RunErrors = <<[stage |-> StageOfCall(calls[Len(calls)]), error |-> exc.text]>>
        /\ exc = StepError => RunErrors[1].stage = "transform"
        /\ returned_value.status = "failed"
        /\ returned_value.errors = monitor.metrics.errors

\* Witness: a run whose chain raised has returned, after an earlier run of the
\* same orchestrator.
C2_Witness ==
    /\ Returned
    /\ exc = StepError
    /\ runs = 2
    /\ Len(RunErrors) = 1

\* ------------------------------------------------------------------- C3
\* The calls of a run in which nothing raises: connect, extract, disconnect of
\* each source in registration order, then the steps of the chain in order
\* (when the chain is applied), then connect, load, disconnect of each sink in
\* registration order.
AdapterCalls(kind, adapters, op) ==
    [n \in 1..(3 * Len(adapters)) |->
        Call(kind, adapters[(n + 2) \div 3],
             IF n % 3 = 1 THEN "connect" ELSE IF n % 3 = 2 THEN op ELSE "disconnect")]

StepCalls == [n \in 1..Len(ran_with.transformer.transformations) |-> Call("step", n, "call")]

ExpectedCalls(chain_applied) ==
    AdapterCalls("source", ran_with.extractors, "extract")
        \o (IF chain_applied THEN StepCalls ELSE <<>>)
        \o AdapterCalls("sink", ran_with.loaders, "load")

\* C3: the calls of every run occur in one fixed order: what has been called
\* so far is always a prefix of the sequence above.
C3_FixedOrder ==
    \/ IsPrefix(calls, ExpectedCalls(TRUE))
    \/ IsPrefix(calls, ExpectedCalls(FALSE))

\* Witness: a run with two sources, a chain and two sinks has made all its
\* calls.
C3_Witness ==
    /\ Returned
    /\ Len(ran_with.extractors) = 2 /\ Len(ran_with.loaders) = 2
    /\ Len(ran_with.transformer.transformations) = 1
    /\ calls = ExpectedCalls(TRUE)

\* ------------------------------------------------------------------- C4
RECURSIVE TotalRows(_)
TotalRows(frames) ==
    IF frames = <<>> THEN 0 ELSE len(Head(frames)) + TotalRows(Tail(frames))

StageRecord(name, n) == [name |-> name, records_processed |-> n, status |-> "success"]

\* Every Dataset the sources returned in this run is pd.DataFrame() or has
\* the column "value".
WellFormed(frames) == \A j \in DOMAIN frames : frames[j] = EmptyDF \/ frames[j].columns # <<>>

\* C4: with no chain set, a run whose sources returned N > 0 rows in total and
\* whose adapters did not raise returns 'success' with exactly two stage
\* records, 'extract' then 'load', each with records_processed = N, and every
\* sink's write received all N rows unmodified. (Stated for sources that
\* return Datasets with columns.)
C4_ExtractAndLoadOnly ==
    (Returned /\ ~Failed /\ ~ran_with.transformer.present /\ WellFormed(fetched)
              /\ TotalRows(fetched) > 0) =>
        /\ returned_value.status = "success"
        /\ returned_value.stages = <<StageRecord("extract", TotalRows(fetched)),
                                     StageRecord("load", TotalRows(fetched))>>
        /\ Len(received) = Len(ran_with.loaders)
        /\ \A j \in DOMAIN received : received[j].rows = ConcatRows(fetched)

\* ------------------------------------------------------------------- C5
\* Step (4) of the current run is over: run() has reached the load loop.
Step4Done ==
    /\ runs > 0
    /\ \/ pc \in {"load_loop", "load_write", "load_disconnect"}
       \/ /\ pc \in {"except", "end", "idle"}
          /\ ~Failed \/ calls[Len(calls)].kind = "sink"

TransformStages == {j \in DOMAIN RunStages : RunStages[j].name = "transform"}

\* C5 as claimed: step (4) always records a stage 'transform' whose
\* records_processed is the row count of the Dataset handed to the sinks.
C5_AlwaysTransformStage ==
    Step4Done =>
        \E j \in TransformStages : RunStages[j].records_processed = len(transformed_data)

\* C5, amended: step (4) records a stage 'transform' exactly when a chain is
\* set and the combined Dataset is non-empty, once, with the row count of the
\* Dataset handed to the sinks; otherwise the combined Dataset is handed to the
\* sinks unchanged and the run records no 'transform' stage.
C5_TransformStageIffChainApplied ==
    Step4Done =>
        IF ran_with.transformer.present /\ Len(combined_data.rows) > 0 /\ Len(combined_data.columns) > 0
        THEN /\ Cardinality(TransformStages) = 1
             /\ \A j \in TransformStages :
                    RunStages[j].records_processed = len(transformed_data)
        ELSE /\ TransformStages = {}
             /\ transformed_data = combined_data

\* Witness: a chain that drops a row was applied, and the run has returned.
C5_Witness ==
    /\ Returned /\ ~Failed
    /\ ran_with.transformer.present
    /\ len(transformed_data) < len(combined_data)
    /\ len(transformed_data) > 0
    /\ TransformStages # {}

\* ------------------------------------------------------------------- C6
NoRepeat(s) == \A a, b \in DOMAIN s : a # b => s[a] # s[b]

\* C6: run() is fail-fast without retry or rollback: once a call has raised,
\* the run makes no further adapter call and no further step, what the sinks
\* received stays as it is, and no call of a run is made twice.
C6_FailFast ==
    [][ /\ (Failed /\ pc # "idle") => (calls' = calls /\ received' = received)
        /\ NoRepeat(calls') ]_vars

\* Witness: the first sink's write completed, the second sink raised, and the
\* run has returned.
C6_Witness ==
    /\ Returned /\ Failed
    /\ Len(ran_with.loaders) = 2
    /\ Len(received) = 1
    /\ calls[Len(calls)].kind = "sink" /\ calls[Len(calls)].idx = 2

\* ------------------------------------------------------------------- C7
\* The dict a caller got from end_pipeline: `return self.metrics` hands out the
\* Monitor's own dict, not a copy.
ReturnedDict == monitor.metrics

\* C7: after end_pipeline has returned the metrics, the returned value is
\* frozen: no later operation changes its status, stage list or error list.
C7_ReturnedMetricsFrozen ==
    returned =>
        /\ ReturnedDict.status = returned_value.status
        /\ ReturnedDict.stages = returned_value.stages
        /\ ReturnedDict.errors = returned_value.errors

\* ------------------------------------------------------------------- C8
\* C8: the metrics returned by a run() hold only the stage and error records
\* produced during that run.
C8_MetricsPerRun ==
    Returned =>
        /\ returned_value.stages = RunStages
        /\ returned_value.errors = RunErrors

\* ------------------------------------------------------------------- C9
\* C9: end_stage with no stage active (never started, or already ended) is a
\* no-op on the Monitor, so the stage records never outnumber the start_stage
\* calls.
C9_EndStageWithoutStartIsNoOp ==
    /\ pending = Null =>
           \A n \in ClientRecords, s \in BOOLEAN : end_stage(monitor, n, s) = monitor
    /\ Len(monitor.metrics.stages) <= start_calls

\* Witness: one stage was started and ended, and end_stage was called again.
C9_Witness ==
    /\ start_calls = 1
    /\ end_calls >= 2
    /\ pending = Null
    /\ Len(monitor.metrics.stages) = 1

\* ------------------------------------------------------------------ C10
NameAndRecords(stages) ==
    [j \in DOMAIN stages |-> <<stages[j].name, stages[j].records_processed>>]

\* C10: the stage list is append-only and in call order: it holds one record
\* per completed start_stage / end_stage pair, in the order of the end_stage
\* calls, each with the name given to the matching start_stage and the
\* records_processed given to end_stage; no record is reordered or removed.
C10_StagesAppendOnlyInCallOrder ==
    [][ /\ IsPrefix(monitor.metrics.stages, monitor'.metrics.stages)
        /\ NameAndRecords(monitor'.metrics.stages) = completed' ]_vars

\* Witness: two stages with different names and record counts were completed.
C10_Witness ==
    /\ Len(monitor.metrics.stages) = 2
    /\ monitor.metrics.stages[1].name # monitor.metrics.stages[2].name
    /\ monitor.metrics.stages[1].records_processed
           # monitor.metrics.stages[2].records_processed

\* ------------------------------------------------------------------ C11
\* C11: the status follows not_started -> running -> success | failed: it is
\* 'not_started' until the first start_pipeline, 'running' from start_pipeline
\* until end_pipeline, then 'success' when end_pipeline was given success =
\* true and 'failed' otherwise; no other value appears, and run() returns
\* 'success' exactly when no adapter call or step raised.
C11_StatusLifecycle ==
    /\ monitor.metrics.status \in {"not_started", "running", "success", "failed"}
    /\ monitor.metrics.status = "not_started" <=> runs = 0
    /\ pc \notin {"idle", "propagated"} => monitor.metrics.status = "running"
    /\ Returned =>
           /\ monitor.metrics.status = (IF success THEN "success" ELSE "failed")
           /\ returned_value.status = monitor.metrics.status
           /\ returned_value.status = "success" <=> ~Failed

\* Witness: the orchestrator ran twice; the first run returned 'success' and
\* left a 'load' record, the second returned 'failed'.
C11_Witness ==
    /\ Returned /\ runs = 2
    /\ stage_base > 0
    /\ monitor.metrics.stages[stage_base].name = "load"
    /\ monitor.metrics.errors # <<>> /\ error_base = 0
    /\ returned_value.status = "failed"

\* ------------------------------------------------------------------ C12
\* No adapter call and no step of the current (or last) run raised.
NothingRaised == exc \notin {AdapterError, StepError}

\* C12: failures an adapter handles itself are soft: a run in which no adapter
\* call raised returns 'success' with no error record, also when a source
\* returned an empty Dataset or a connect, load or disconnect returned False,
\* and every configured source and sink was invoked.
C12_SoftFailures ==
    (Returned /\ NothingRaised) =>
        /\ returned_value.status = "success"
        /\ RunErrors = <<>>
        /\ calls = ExpectedCalls(TransformApplies(ran_with.transformer, combined_data))

\* Witness: a run with two sources and two sinks has returned; a source
\* returned pd.DataFrame(), an adapter call returned False and no load
\* returned True.
C12_Witness ==
    /\ Returned /\ NothingRaised
    /\ soft /\ ~wrote
    /\ Len(ran_with.extractors) = 2 /\ Len(ran_with.loaders) = 2
    /\ \E j \in DOMAIN fetched : fetched[j] = EmptyDF
    /\ Len(received) = 2

\* ------------------------------------------------------------------ C13
\* The 'load' records of the current run.
LoadStages == {j \in DOMAIN RunStages : RunStages[j].name = "load"}

\* C13 as claimed: the 'load' record's records_processed is the row count
\* written to the sinks: the row count of the post-transform Dataset when the
\* writes succeeded, and 0 when nothing was written (no sink configured, or
\* every load returned False).
C13_LoadCountsRowsWritten ==
    (Returned /\ NothingRaised) =>
        \E j \in LoadStages :
            /\ (wrote /\ ~soft) => RunStages[j].records_processed = len(transformed_data)
            /\ ~wrote => RunStages[j].records_processed = 0

\* ------------------------------------------------------------------ C14
\* Step (3) of the current run is over: run() has combined what the sources
\* returned and ended the 'extract' stage.
ExtractDone ==
    /\ runs > 0
    /\ \/ pc \in {"transform", "load_loop", "load_write", "load_disconnect"}
       \/ /\ pc \in {"except", "end", "idle"}
          /\ ~Failed \/ calls[Len(calls)].kind # "source"

\* The frames of a sequence that have at least one row and one column.
NonEmpty(frames) ==
    SelectSeq(frames, LAMBDA f : Len(f.rows) > 0 /\ Len(f.columns) > 0)

\* C14 as claimed: the combined Dataset is the row-wise concatenation, in
\* registration order, of the Datasets the sources returned, and the 'extract'
\* record's records_processed is the sum of the row counts the sources
\* returned.
C14_CombinedIsConcatOfAll ==
    ExtractDone =>
        /\ combined_data.rows = ConcatRows(fetched)
        /\ TotalRows(fetched) = 0 => combined_data = EmptyDF
        /\ RunStages[1] = StageRecord("extract", TotalRows(fetched))

\* C14, amended: the combined Dataset is the row-wise concatenation, in
\* registration order, of the returned Datasets that have at least one row and
\* one column (pd.DataFrame() if there is none), and the 'extract' record's
\* records_processed is the sum of the row counts of those Datasets; a returned
\* Dataset with rows but no column contributes neither rows nor count.
C14_CombinedIsConcatOfNonEmpty ==
    ExtractDone =>
        /\ combined_data.rows = ConcatRows(NonEmpty(fetched))
        /\ NonEmpty(fetched) = <<>> => combined_data = EmptyDF
        /\ NonEmpty(fetched) # <<>> => combined_data.columns = <<"value">>
        /\ RunStages[1] = StageRecord("extract", TotalRows(NonEmpty(fetched)))

\* Witness: two sources returned one row each; the combined Dataset holds the
\* row of the first source, then the row of the second.
C14_Witness ==
    /\ ExtractDone
    /\ fetched = <<Frame(1, 1), Frame(1, 2)>>
    /\ combined_data.rows = <<<<1>>, <<2>>>>
    /\ RunStages[1].records_processed = 2

\* ------------------------------------------------------------------ C15
\* f_n(... f_1(df)) for the steps f_1 .. f_n of a chain.
RECURSIVE ChainOutput(_, _)
ChainOutput(chain, df) ==
    IF chain = <<>> THEN df
    ELSE ChainOutput(Tail(chain), ApplyStep(Head(chain), df))

\* C15: when a chain is set and the combined Dataset is non-empty, every
\* sink's load receives exactly the output of the chain, never the
\* pre-transform Dataset, and all sinks of one run receive the same Dataset.
C15_SinksReceiveChainOutput ==
    (runs > 0 /\ TransformApplies(ran_with.transformer, combined_data)) =>
        /\ \A j \in DOMAIN received :
               received[j] = ChainOutput(ran_with.transformer.transformations, combined_data)
        /\ \A j, l \in DOMAIN received : received[j] = received[l]

\* Witness: the combined Dataset has the rows 1 and 2, the chain's filter
\* keeps row 2 only, and both sinks were given that one row.
C15_Witness ==
    /\ Returned
    /\ ran_with.transformer.present /\ ran_with.transformer.transformations = <<"filter">>
    /\ combined_data.rows = <<<<1>>, <<2>>>>
    /\ Len(received) = 2
    /\ received[1].rows = <<<<2>>>> /\ received[2].rows = <<<<2>>>>

\* ------------------------------------------------------------------ C16
\* The content transform() was given: that of combined_data when it was made.
TransformInput == created[combined_ref]

\* transform() is at the head of its loop or has returned.
InTransform == result_ref # 0 /\ pc = "transform"
TransformReturned ==
    /\ pc = "load_loop"
    /\ TransformApplies(transformer, TransformInput)

\* C16: transform() applies the steps in the order they were added, each
\* receiving the output of the one before and the first a copy of the input:
\* before its n-th iteration result is f_(n-1)(... f_1(input)), and the value
\* returned is f_n(... f_1(input)).
C16_StepsApplyInOrder ==
    /\ InTransform =>
           objects[result_ref] =
               ChainOutput(SubSeq(transformer.transformations, 1, k - 1), TransformInput)
    /\ TransformReturned =>
           objects[result_ref] = ChainOutput(transformer.transformations, TransformInput)

\* Witness: the chain <<add, filter>> has returned for an input with the rows
\* 1 and 2; its result, the rows 2 and 3, is not what the chain with the two
\* steps swapped gives (the row 3).
C16_Witness ==
    /\ TransformReturned
    /\ transformer.transformations = <<"add", "filter">>
    /\ TransformInput.rows = <<<<1>>, <<2>>>>
    /\ objects[result_ref].rows = <<<<2>>, <<3>>>>
    /\ ChainOutput(<<"filter", "add">>, TransformInput).rows = <<<<3>>>>

\* ------------------------------------------------------------------ C17
\* C17: neither run() nor the chain changes a Dataset it was given: every
\* Dataset a source returned has the rows and columns it had when fetched, and
\* the Dataset given to transform() has those it had at the call, whatever the
\* steps do to the frame they are handed.
C17_InputsNotMutated ==
    /\ \A j \in DOMAIN source_refs : objects[source_refs[j]] = created[source_refs[j]]
    /\ combined_ref # 0 => objects[combined_ref] = created[combined_ref]

\* Witness: transform() has returned after a step that assigns in place
\* changed the frame it was handed, in a run with one source (so that this
\* frame had the content of the source's Dataset).
C17_Witness ==
    /\ TransformReturned
    /\ Len(source_refs) = 1
    /\ \E n \in DOMAIN transformer.transformations :
           InPlace(transformer.transformations[n])
    /\ \E r \in DOMAIN objects : objects[r] # created[r]
    /\ created[source_refs[1]] = created[combined_ref]

\* ------------------------------------------------------------------ C18
\* C18: standardize_column_names is idempotent: applied to its own result it
\* returns the same column names, for every name over upper- and lower-case
\* letters, spaces, '-', '.' and '_'.
C18_StandardizeIdempotent ==
    Len(results) = 2 => results[2] = results[1]

\* Witness: the name "aB" followed by a separator became "a_b", and a second
\* application left it so.
C18_Witness ==
    /\ Len(results) = 2
    /\ \E name \in Names(MaxNameLen) :
           /\ argument.columns = <<name>>
           /\ Len(name) = 3
           /\ name[1] = "a" /\ name[2] = "B" /\ IsSeparator(name[3])
    /\ results[2] = <<<<"a", "_", "b">>>>

\* ------------------------------------------------------------------ C19
\* The distinct key tuples of the rows of a Dataset, a missing cell being a
\* value like any other.
DistinctKeys(df, group_by) == {KeyOf(df, group_by, r) : r \in DOMAIN df.rows}

\* C19 as claimed: for any Dataset, whose cells (those of the key columns
\* included) may be missing, and any grouping key of one or more columns, the
\* aggregation returns exactly as many rows as the input has distinct key
\* tuples.
C19_OneRowPerKeyTuple ==
    Len(results) = 1 =>
        Len(results[1].frame.rows)
            = Cardinality(DistinctKeys(argument.df, argument.group_by))

\* ------------------------------------------------------------------ C20
\* The column names C20 gives the result: the key columns under their names,
\* then '<column>_<function>' for each (column, function) pair.
JoinedNames(group_by, aggregations) ==
    group_by \o [n \in DOMAIN Pairs(aggregations) |->
                    Pairs(aggregations)[n][1] \o <<"_">> \o Pairs(aggregations)[n][2]]

\* C20 as claimed: when the aggregations map a column to several functions,
\* aggregate_data returns single-level column names, one per (column,
\* function) pair, named '<column>_<function>', the key columns keeping their
\* names; for every column name, also when single functions and lists are
\* mixed.
C20_FlattenedColumnNames ==
    (/\ Len(results) = 1
     /\ results[1].op = "aggregate_data"
     /\ IsMultiIndex(argument.aggregations)) =>
        /\ ~results[1].frame.multi
        /\ results[1].frame.columns = JoinedNames(argument.group_by, argument.aggregations)

\* ------------------------------------------------------------------ C21
\* The denominator of row r: the sum of the value column, or of the rows of
\* its group.
Denominator(r) ==
    IF argument.group_by # <<>>
    THEN GroupSum(argument.df, argument.group_by, argument.value_column, r)
    ELSE ColumnSum(Column(argument.df, argument.value_column))

\* The percentage column of the frame returned.
Percentages == [r \in DOMAIN results[1].rows |-> results[1].rows[r][3]]

\* Row r has a value, and a key when the percentages are grouped.
Affected(r) ==
    /\ ~isna(Column(argument.df, argument.value_column)[r])
    /\ \A n \in DOMAIN argument.group_by :
           ~isna(KeyOf(argument.df, argument.group_by, r)[n])

\* C21 as claimed: when the denominator (the global sum, or the sum of the
\* row's group) is zero the percentage of the row is 0; for an all-zero
\* column every percentage is 0. (Stated for the rows that have a value.)
C21_ZeroDenominatorGivesZero ==
    Len(results) = 1 =>
        \A r \in DOMAIN argument.df.rows :
            (Affected(r) /\ Denominator(r) = 0) =>
                (Percentages[r].kind = "num" /\ Percentages[r].n = 0)

\* ------------------------------------------------------------------ C22
\* The percentage column sums to 100.
SumsTo100 ==
    LET total == FloatSum(Percentages)
    IN  total.kind = "num" /\ total.n = 100 * total.d

\* C22 as claimed: for a non-empty value column whose values are not all
\* zero, the percentages computed without grouping sum to 100. (Stated for
\* columns without missing cells.)
C22_PercentagesSumTo100 ==
    (/\ Len(results) = 1
     /\ argument.group_by = <<>>
     /\ argument.df.rows # <<>>
     /\ \A r \in DOMAIN argument.df.rows : ~isna(Column(argument.df, Price)[r])
     /\ \E r \in DOMAIN argument.df.rows : Column(argument.df, Price)[r] # 0) =>
        SumsTo100

\* C22, amended: for a value column whose sum is not zero, the percentages
\* computed without grouping sum to 100.
C22_NonZeroSumPercentagesSumTo100 ==
    (/\ Len(results) = 1
     /\ argument.group_by = <<>>
     /\ ColumnSum(Column(argument.df, Price)) # 0) =>
        SumsTo100

\* Witness: the prices 1 and 2 got the percentages 100/3 and 200/3.
C22_Witness ==
    /\ Len(results) = 1
    /\ argument.group_by = <<>>
    /\ Column(argument.df, Price) = <<1, 2>>
    /\ Percentages = <<Num(100, 3), Num(200, 3)>>

\* ---- SpecFill
\* The call made was fill_missing_values with strategy 'constant' and a
\* fill value that is not None.
ConstantFilled ==
    /\ results # <<>>
    /\ argument.strategy = "constant"
    /\ ~isna(argument.fill_value)

\* C23: fill_missing_values with strategy 'constant' and a non-null fill
\* value v returns a frame; in it a targeted column has no missing cell, a
\* cell that was missing holds v and a cell that was not keeps its value.
C23_ConstantFillsEveryNull ==
    ConstantFilled =>
        /\ "raised" \notin DOMAIN results[1]
        /\ results[1].columns = argument.df.columns
        /\ DOMAIN results[1].rows = DOMAIN argument.df.rows
        /\ \A r \in DOMAIN argument.df.rows :
           \A n \in TargetColumns(argument.df, argument.columns) :
               /\ ~isna(results[1].rows[r][n])
               /\ isna(argument.df.rows[r][n]) =>
                      results[1].rows[r][n] = argument.fill_value
               /\ ~isna(argument.df.rows[r][n]) =>
                      results[1].rows[r][n] = argument.df.rows[r][n]

\* The column "value" <<NaN, 1>> filled with 2, "quantity" not targeted.
C23_Witness ==
    /\ ConstantFilled
    /\ argument.columns = <<Value>>
    /\ argument.fill_value = 2
    /\ argument.df.rows = <<<<NaN, NaN>>, <<1, 3>>>>
    /\ "raised" \notin DOMAIN results[1]
    /\ results[1].rows = <<<<2, NaN>>, <<1, 3>>>>

\* ---- SpecRank
\* The call made was rank_data with method 'dense', descending, without
\* grouping.
DenseRanked ==
    /\ results # <<>>
    /\ argument.method = "dense"
    /\ ~argument.ascending
    /\ argument.group_by = <<>>

\* The prices ranked and the ranks given, by row.
Ranked == Column(argument.df, Price)
Ranks == Column(results[1], Price \o <<"_", "rank">>)

\* The distinct prices strictly greater than that of row r.
Greater(r) == {Ranked[q] : q \in {p \in DOMAIN Ranked :
                                    ~isna(Ranked[p]) /\ Ranked[p] > Ranked[r]}}

\* C24: rank_data with method 'dense', descending, gives a row with a value
\* the rank 1 + the number of distinct values strictly greater: equal values
\* share a rank, the ranks given are 1..m without a gap, and when the values
\* are all present and distinct the largest rank is the number of rows.
C24_DenseRankCountsGreaterValues ==
    DenseRanked =>
        LET valued == {r \in DOMAIN Ranked : ~isna(Ranked[r])}
            given == {Ranks[r] : r \in valued}
        IN  /\ DOMAIN Ranks = DOMAIN Ranked
            /\ \A r \in valued : Ranks[r] = 1 + Cardinality(Greater(r))
            /\ \A r \in valued : \A q \in valued :
                   Ranked[r] = Ranked[q] => Ranks[r] = Ranks[q]
            /\ given = 1..Cardinality(given)
            /\ (/\ valued = DOMAIN Ranked
                /\ \A r \in valued : \A q \in valued : r # q => Ranked[r] # Ranked[q])
               => \A r \in valued : \E q \in valued :
                      Ranks[q] = Len(Ranked) /\ Ranks[r] <= Ranks[q]

\* The prices [10, 10, 20] got the ranks [2, 2, 1].
C24_Witness ==
    /\ DenseRanked
    /\ Ranked = <<10, 10, 20>>
    /\ Ranks = <<2, 2, 1>>

\* ---- SpecConvert
\* The columns of the frame named by the mapping given.
Listed == {n \in DOMAIN argument.df.columns :
              \E m \in DOMAIN argument.dtype_map :
                  argument.dtype_map[m][1] = argument.df.columns[n]}

\* Column n holds a string that is no number: it cannot be coerced to 'int'
\* or to 'float'.
Uncoercible(n) ==
    \E r \in DOMAIN argument.df.rows : argument.df.rows[r][n].kind = "text"

\* C25: after convert_dtypes or convert_types, a listed column that cannot
\* be coerced to its target holds the values it held in the input.
C25_UncoercibleColumnUnchanged ==
    results # <<>> =>
        \A n \in Listed :
            Uncoercible(n) =>
                Column(results[1], argument.df.columns[n])
                    = Column(argument.df, argument.df.columns[n])

\* ---- SpecData
\* transform() has raised: run() is in its handler with the error of a step.
TransformRaised == pc = "except" /\ exc = StepError /\ result_ref # 0

\* C26: when step k of the chain raises, transform() re-raises that error
\* and returns nothing: result then holds the steps 1..k-1 applied once each,
\* in order, to the copy of the input, and no step after k is applied;
\* transform() returns only from a chain none of whose steps raised.
C26_RaisingStepEndsTheChain ==
    LET chain == transformer.transformations
    IN  /\ TransformRaised =>
               /\ k \in DOMAIN chain
               /\ chain[k] = "raise"
               /\ \A n \in 1..(k - 1) : chain[n] # "raise"
               /\ objects[result_ref] = ChainOutput(SubSeq(chain, 1, k - 1), TransformInput)
        /\ TransformReturned => \A n \in DOMAIN chain : chain[n] # "raise"
        /\ (InTransform /\ k <= Len(chain)) => \A n \in 1..(k - 1) : chain[n] # "raise"

\* Witness: the second step of the chain raised after the first had derived
\* its column once.
C26_Witness ==
    /\ TransformRaised
    /\ k = 2
    /\ transformer.transformations[1] = "add"
    /\ TransformInput.rows # <<>>
    /\ objects[result_ref] = step_add(TransformInput)

\* ------------------------------------------------------------------ C27
\* The n-th call of the run was a connect() that returned: run() went on to
\* another call of the same adapter.
ConnectReturned(n) ==
    /\ calls[n].op = "connect"
    /\ n < Len(calls)

\* The adapter connected by the n-th call was closed by a later call.
ClosedAfter(n) ==
    \E m \in (n + 1)..Len(calls) :
        /\ calls[m].kind = calls[n].kind
        /\ calls[m].idx = calls[n].idx
        /\ calls[m].op = "disconnect"

\* C27: when run() has returned, with either status, every adapter it
\* connected it has also closed, the one whose fetch or write raised
\* included.
C27_ConnectedAdaptersAreClosed ==
    (Returned /\ ~soft) =>
        \A n \in DOMAIN calls : ConnectReturned(n) => ClosedAfter(n)

\* ------------------------------------------------------------------ C28
\* The stage run() was in when the call that raised was made.
FailingStage == StageOfCall(calls[Len(calls)])

\* The stages run() had completed when it failed in `stage`.
CompletedBefore(stage) ==
    IF stage = "extract" THEN <<>>
    ELSE IF stage = "transform" THEN <<"extract">>
    ELSE IF TransformApplies(ran_with.transformer, combined_data) THEN <<"extract", "transform">>
    ELSE <<"extract">>

\* C28: every stage record of the metrics run() returns has status
\* 'success'; the stage list of a failed run holds exactly the stages
\* completed before the failure, and the failing stage is named in the error
\* record only.
C28_FailedRunHoldsCompletedStages ==
    Returned =>
        /\ \A j \in DOMAIN returned_value.stages :
               returned_value.stages[j].status = "success"
        /\ Failed =>
               /\ [j \in DOMAIN returned_value.stages |-> returned_value.stages[j].name]
                      = CompletedBefore(FailingStage)
               /\ \A j \in DOMAIN returned_value.stages :
                      returned_value.stages[j].name # FailingStage
               /\ returned_value.errors[Len(returned_value.errors)].stage = FailingStage

\* ---- SpecApi
\* The positions of the requests made so far among the events of the call.
Requests == {n \in DOMAIN api.events : api.events[n] = "request"}
Failures == {n \in DOMAIN api.events : api.events[n] = "failed"}

\* extract_from_api was called by the caller itself, with retries >= 1.
Retrying == TopLevel /\ argument.retries >= 1

\* C29: for retries >= 1, extract_from_api makes at most `retries` requests,
\* one after the other, and none after a request that succeeded, whose data
\* it returns; it sleeps between two attempts and only there, never after
\* the last; it raises the request error only after exactly `retries`
\* requests that all failed.
C29_RetriesUntilFirstSuccess ==
    Retrying =>
        /\ Cardinality(Requests) <= argument.retries
        /\ \A n \in DOMAIN api.events :
               /\ api.events[n] \in {"succeeded", "unparsed"} => n = Len(api.events)
               /\ (api.events[n] = "request" /\ n > 1) => api.events[n - 1] = "sleep"
               /\ api.events[n] = "sleep" =>
                      /\ api.events[n - 1] = "failed"
                      /\ IF n < Len(api.events) THEN api.events[n + 1] = "request"
                         ELSE api.pc = "attempt" /\ Cardinality(Requests) < argument.retries
        /\ api.pc = "returned" =>
               /\ api.events[Len(api.events)] = "succeeded"
               /\ Cardinality(Failures) = Cardinality(Requests) - 1
               /\ api.value = api.df
        /\ (api.pc = "raised" /\ api.error = "RequestException") =>
               /\ Cardinality(Requests) = argument.retries
               /\ Cardinality(Failures) = argument.retries

\* Witness: with retries = 3 the third request failed as the two before it,
\* and the error was raised after two sleeps.
C29_Witness ==
    /\ Retrying
    /\ argument.retries = 3
    /\ api.pc = "raised"
    /\ api.events = <<"request", "failed", "sleep", "request", "failed", "sleep",
                     "request", "failed">>

\* ---- SpecApiFair
\* extract_paginated_api was called.
Paged == argument.function = "extract_paginated_api"

\* Page j, once extract_from_api is done with it, is a page after which the
\* loop goes on: fetched, not empty and not shorter than `limit`.
FullPage(j) ==
    /\ j \in DOMAIN api.outcomes
    /\ api.outcomes[j].error = Null
    /\ ~empty(api.outcomes[j].df)
    /\ len(api.outcomes[j].df) >= argument.limit

\* The non-empty pages fetched, in page order.
KeptPages ==
    LET kept == SelectSeq(api.outcomes, LAMBDA o : o.error = Null /\ ~empty(o.df))
    IN  [j \in DOMAIN kept |-> kept[j].df]

\* The pages are asked for in the order 1, 2, 3, ..., none after a page that
\* is empty, short or failed, none beyond max_pages, and what is returned is
\* the kept pages concatenated in page order.
PagesInOrder ==
    /\ \A j \in DOMAIN api.pages : api.pages[j] = j
    /\ \A j \in DOMAIN api.pages : j < Len(api.pages) => FullPage(j)
    /\ argument.max_pages # AllPages => Len(api.pages) <= argument.max_pages
    /\ api.pc = "returned" =>
           api.value = IF KeptPages = <<>> THEN EmptyDF ELSE concat(KeptPages)

PagingEnded == api.pc \in {"returned", "raised"}

\* The loop over the pages has an end in sight: max_pages is given, or a
\* page was empty, short or failed.
PagingBounded ==
    \/ argument.max_pages # AllPages
    \/ IF Followed THEN \E j \in DOMAIN api.outcomes : ~FullPage(j)
       ELSE api.pc \in {"page_end", "returned"}

\* C30: extract_paginated_api terminates, having fetched the pages in order
\* and none after the first empty, short or failed page or page max_pages,
\* and returns the concatenation in page order of the non-empty pages.
C30_PaginationTerminates ==
    /\ []((Paged /\ Followed) => PagesInOrder)
    /\ (Paged ~> PagingEnded)

\* C30 as amended: the same, but the call is sure to end only if max_pages
\* is given or some page is empty, short or failed; with max_pages None and
\* full pages without end it goes on fetching.
C30_PaginationTerminatesUnlessEndless ==
    /\ []((Paged /\ Followed) => PagesInOrder)
    /\ ((Paged /\ PagingBounded) ~> PagingEnded)

\* Witness: with limit 2, page 1 was full, page 2 short, and the three
\* records were returned in page order.
C30_Witness ==
    /\ Paged
    /\ argument.limit = 2
    /\ api.pc = "returned"
    /\ api.pages = <<1, 2>>
    /\ api.value.rows = <<<<11>>, <<12>>, <<21>>>>

====
